---- MODULE Spec2Model ----
(***************************************************************************)
(* Model of Types/_entity/adapter/SbisFormatController.ts: the lazy format *)
(* resolver (RecursiveStack, RecursiveIterator, SbisFormatController) and  *)
(* the helpers eachFormatEntry / recoverFormats.                           *)
(*                                                                         *)
(* Memory model.  A payload is a set of JavaScript objects, so it is kept  *)
(* as a heap: `heap` is a sequence of nodes and a reference is an index    *)
(* into it.  Structure lists (`s`) are objects of their own: `lists` maps  *)
(* a list reference to its content, so that aliasing (the cache keeping    *)
(* the payload's own list) and copying (_clone) are different things.      *)
(* Values that are not references are Undefined, Null and Prim.            *)
(***************************************************************************)
EXTENDS Integers, Sequences, FiniteSets, TLC

\* JavaScript values that are not object references.
Undefined == -1
Null == -2
Prim == 0

\* ---------------------------------------------------------------- bounds
\* Format ids the generated payloads use are 1..MaxId; lookups also ask for MaxId + 1.
MaxId == 2

\* How many different ids setOriginal is called for in one behaviour.
MaxSeeds == 1
\* How many times the caller changes a list it got from getFormat in one behaviour.
MaxChanges == 2
\* Record keys of a hierarchical source are 0..MaxKey.
MaxKey == 2
\* How many records the breadcrumbs of one query may take.
MaxPath == 4
\* The longest array an IteratorArray is constructed on, and the most next() calls
\* made on one iterator.
MaxLen == 3
MaxCalls == 6
\* The most items the source of a Group strategy holds, and the most groups the
\* strategy gathers before it is reset.
MaxItems == 3
MaxGroups == 4

Ids == 1..MaxId
LookupIds == 1..(MaxId + 1)

\* ---------------------------------------------------------------- values
IsRef(v) == v >= 1
\* `if (x)` for the values of the model: references (objects, arrays, lists) and
\* Prim are truthy, undefined and null are not.
Truthy(v) == v >= 0

Arr(items) == [kind |-> "arr", items |-> items, f |-> Undefined, s |-> Undefined, d |-> Undefined]
Obj(f, s, d) == [kind |-> "obj", items |-> <<>>, f |-> f, s |-> s, d |-> d]

\* `x instanceof Array`, `x instanceof Object`
IsArray(h, v) == IsRef(v) /\ h[v].kind = "arr"
IsObject(h, v) == IsRef(v)

\* Map.set(k, v) on a map kept as a function.
MapSet(m, k, v) == (k :> v) @@ m
MapDelete(m, k) == [x \in (DOMAIN m) \ {k} |-> m[x]]

\* ---------------------------------------------------------- IteratorArray
\* The two iterators _getIterator can hand out: the array's native iterator
\* (Symbol.iterator) and the fallback class IteratorArray.
NoIterator == [kind |-> "none", currentIndex |-> -1]
IteratorArray(data) == [kind |-> "IteratorArray", currentIndex |-> -1]
NativeIterator(data) == [kind |-> "native", currentIndex |-> 0]

\* IteratorArray.isDone
isDone(it, len) == it.currentIndex = len

\* IteratorArray.next() with the index moved twice on the first call, so that the
\* first element is never returned.
IteratorArrayNextSkipping(it, items) ==
    LET idx == IF it.currentIndex = -1 /\ Len(items) > 0 THEN 1 ELSE it.currentIndex + 1
    IN  IF idx = Len(items)
        THEN [iterator |-> [it EXCEPT !.currentIndex = idx], value |-> Undefined, done |-> TRUE]
        ELSE [iterator |-> [it EXCEPT !.currentIndex = idx],
              value |-> IF idx < Len(items) THEN items[idx + 1] ELSE Undefined,
              done |-> FALSE]

\* IteratorArray.next on an array with elements `items`: the iterator afterwards,
\* the value and the done flag.
IteratorArrayNext(it, items) ==
    LET it1 == [it EXCEPT !.currentIndex = @ + 1]
    IN  IF isDone(it1, Len(items))
        THEN [iterator |-> it1, value |-> Undefined, done |-> TRUE]
        ELSE [iterator |-> it1,
              value |-> IF it1.currentIndex + 1 \in 1..Len(items)
                        THEN items[it1.currentIndex + 1] ELSE Undefined,
              done |-> FALSE]

\* An IteratorArray nobody has constructed, and one constructed on `data` together
\* with the results of the next() calls made on it so far.
NoReader == [data |-> <<>>, iterator |-> NoIterator, results |-> <<>>]
Reader(data) == [data |-> data, iterator |-> IteratorArray(data), results |-> <<>>]

\* next() called on the reader's iterator, the result kept
Read(r) ==
    [r EXCEPT !.iterator = IteratorArrayNext(r.iterator, r.data).iterator,
              !.results = Append(@, [value |-> IteratorArrayNext(r.iterator, r.data).value,
                                     done |-> IteratorArrayNext(r.iterator, r.data).done])]

\* The native array iterator: currentIndex is the next index to read; past the end
\* it stays done.
NativeIteratorNext(it, items) ==
    IF it.currentIndex < Len(items)
    THEN [iterator |-> [it EXCEPT !.currentIndex = @ + 1],
          value |-> items[it.currentIndex + 1], done |-> FALSE]
    ELSE [iterator |-> it, value |-> Undefined, done |-> TRUE]

IteratorNext(it, items) ==
    IF it.kind = "native" THEN NativeIteratorNext(it, items) ELSE IteratorArrayNext(it, items)

\* RecursiveIterator.doesEnvSupportIterator is a property of the environment: `env`.
_getIterator(env, data) == IF env THEN NativeIterator(data) ELSE IteratorArray(data)

\* --------------------------------------------------------- RecursiveStack
\* The wrapper nodes {data, iterator, completed} are objects: `nodes` holds them and
\* the stack's map and _current hold references (indices) to them.
WrapperNode(data) == [data |-> data, iterator |-> NoIterator, completed |-> FALSE]

RecursiveStack == [nodes |-> <<>>, _stack |-> <<>>, _current |-> Undefined, processableId |-> -1]

\* get currentNode(): this._current || undefined
currentNode(st) == st._current

\* push() without `this.processableId++`: the node takes the place of the top entry.
pushOverTop(st, node) ==
    LET w == Len(st.nodes) + 1
    IN  [nodes |-> Append(st.nodes, node),
         _current |-> w,
         processableId |-> st.processableId,
         _stack |-> MapSet(st._stack, st.processableId, w)]

push(st, node) ==
    LET w == Len(st.nodes) + 1
    IN  [nodes |-> Append(st.nodes, node),
         _current |-> w,
         processableId |-> st.processableId + 1,
         _stack |-> MapSet(st._stack, st.processableId + 1, w)]

\* pop() without `this._stack.delete(this.processableId + 1)`.
popLeavingEntry(st) ==
    LET id == st.processableId - 1
    IN  [nodes |-> st.nodes,
         processableId |-> id,
         _current |-> IF id \in DOMAIN st._stack THEN st._stack[id] ELSE Undefined,
         _stack |-> st._stack]

pop(st) ==
    LET id == st.processableId - 1
    IN  [nodes |-> st.nodes,
         processableId |-> id,
         _current |-> IF id \in DOMAIN st._stack THEN st._stack[id] ELSE Undefined,
         _stack |-> MapDelete(st._stack, id + 1)]

\* An assignment to a field of the wrapper node `w` (node.iterator = ..., node.completed = true).
SetIterator(st, w, it) == [st EXCEPT !.nodes[w].iterator = it]
\* `node.completed = true` left out.
SetCompletedNever(st, w) == st
SetCompleted(st, w) == [st EXCEPT !.nodes[w].completed = TRUE]

\* ------------------------------------------------------ RecursiveIterator
\* constructor: a fresh stack with the root wrapper pushed.
RecursiveIterator(data) == push(RecursiveStack, WrapperNode(data))

\* The registration test of line 205 without `node.data.f !== undefined`: a structure
\* is registered whether or not the carrier has an id.
RegistersWithoutId(o, storage) == Truthy(o.s) /\ o.f \notin DOMAIN storage

\* The registration test of line 205 without `!storage.has(node.data.f)`.
RegistersAgain(o, storage) == o.f # Undefined /\ Truthy(o.s)

\* The condition of line 205: the carrier declares an id with an inline structure and
\* the id is not cached yet.
Registers(o, storage) == o.f # Undefined /\ Truthy(o.s) /\ o.f \notin DOMAIN storage

\* _process(storage, id) on the stack `st`: the stack and the cache afterwards and the
\* returned value (Undefined when nothing is yielded).
\*   ArrayLoop     the `while (true)` of the array branch, run on the wrapper node w the
\*                 call took from the stack;
\*   ArrayItem     the loop's body once the iterator has answered `item`;
\*   ArrayReturn   lines 195-197, after the recursive call on an element returned r;
\*   ObjectBranch  lines 205-232, on the wrapper node w of the carrier o;
\*   ObjectReturn  lines 225-232, after the recursive call on `d` returned r.
RECURSIVE _process(_, _, _, _, _)
RECURSIVE ArrayLoop(_, _, _, _, _, _)

ArrayReturn(h, env, r, id, w) ==
    IF r.result # Undefined THEN r ELSE ArrayLoop(h, env, r.st, r.storage, id, w)

ArrayItem(h, env, st, storage, id, w, item) ==
    IF item.done
    THEN [st |-> pop(st), storage |-> storage, result |-> Undefined]
    ELSE IF IsObject(h, item.value)
         THEN ArrayReturn(h, env,
                          _process(h, env, push(st, WrapperNode(item.value)), storage, id),
                          id, w)
         ELSE ArrayLoop(h, env, st, storage, id, w)

ArrayLoop(h, env, st, storage, id, w) ==
    LET item == IteratorNext(st.nodes[w].iterator, h[st.nodes[w].data].items)
    IN  ArrayItem(h, env, SetIterator(st, w, item.iterator), storage, id, w, item)

ObjectReturn(r, w) ==
    IF r.result # Undefined
    THEN r
    ELSE [st |-> SetCompleted(pop(r.st), w), storage |-> r.storage, result |-> Undefined]

\* The object branch without lines 216-223: the carrier's `d` is never entered.
ObjectBranchWithoutData(h, env, st, storage, id, w, o) ==
    IF Registers(o, storage) /\ o.f = id
    THEN [st |-> st, storage |-> MapSet(storage, o.f, o.s), result |-> o.s]
    ELSE [st |-> SetCompleted(pop(st), w),
          storage |-> IF Registers(o, storage) THEN MapSet(storage, o.f, o.s) ELSE storage,
          result |-> Undefined]

\* The object branch with storage.set moved under `node.data.f === id`: only the id
\* asked for is cached.
ObjectBranchCachingTarget(h, env, st, storage, id, w, o) ==
    IF Registers(o, storage) /\ o.f = id
    THEN [st |-> st, storage |-> MapSet(storage, o.f, o.s), result |-> o.s]
    ELSE IF Truthy(o.d)
         THEN ObjectReturn(_process(h, env, SetCompleted(push(st, WrapperNode(o.d)), w),
                                    storage, id),
                           w)
         ELSE [st |-> SetCompleted(pop(st), w), storage |-> storage, result |-> Undefined]

ObjectBranch(h, env, st, storage, id, w, o) ==
    IF Registers(o, storage) /\ o.f = id
    THEN [st |-> st, storage |-> MapSet(storage, o.f, o.s), result |-> o.s]
    ELSE IF Truthy(o.d)
         THEN ObjectReturn(_process(h, env, SetCompleted(push(st, WrapperNode(o.d)), w),
                                    IF Registers(o, storage)
                                    THEN MapSet(storage, o.f, o.s) ELSE storage,
                                    id),
                           w)
         ELSE [st |-> SetCompleted(pop(st), w),
               storage |-> IF Registers(o, storage) THEN MapSet(storage, o.f, o.s) ELSE storage,
               result |-> Undefined]

_process(h, env, st, storage, id) ==
    LET w == currentNode(st)
    IN  IF IsArray(h, st.nodes[w].data)
        THEN ArrayLoop(h, env,
                       IF st.nodes[w].iterator.kind = "none"
                       THEN SetIterator(st, w, _getIterator(env, st.nodes[w].data)) ELSE st,
                       storage, id, w)
        ELSE IF IsObject(h, st.nodes[w].data) /\ ~st.nodes[w].completed
        THEN ObjectBranch(h, env, st, storage, id, w, h[st.nodes[w].data])
        ELSE [st |-> pop(st), storage |-> storage, result |-> Undefined]

\* RecursiveIterator.next(storage, id); NextReturn is lines 160-162, after _process
\* returned r.
RECURSIVE next(_, _, _, _, _)
\* next() that, having a result, runs the engine on to the end of the payload before
\* returning it.
NextReturnAfterFullScan(h, env, r, id) ==
    IF r.result # Undefined
    THEN [st |-> next(h, env, r.st, r.storage, Undefined).st,
          storage |-> next(h, env, r.st, r.storage, Undefined).storage,
          value |-> r.result, done |-> FALSE]
    ELSE next(h, env, r.st, r.storage, id)

NextReturn(h, env, r, id) ==
    IF r.result # Undefined
    THEN [st |-> r.st, storage |-> r.storage, value |-> r.result, done |-> FALSE]
    ELSE next(h, env, r.st, r.storage, id)

next(h, env, st, storage, id) ==
    IF st.processableId < 0
    THEN [st |-> st, storage |-> storage, value |-> Undefined, done |-> TRUE]
    ELSE NextReturn(h, env, _process(h, env, st, storage, id), id)

\* ------------------------------------------- RecursiveIterator, step by step
\* One engine followed through its calls: between two operations on its stack the
\* engine is inside next() and _process(), whose activations are `frames`, the
\* innermost last.  A frame holds the wrapper node the activation took from the stack
\* (the local `node`) and where it stands:
\*   "enter"  at the first line of _process;
\*   "loop"   in the `while (true)` of the array branch, about to call iterator.next();
\*   "d"      at line 223, having called _process for the carrier's `d`.
\* `busy` tells that next() has not returned yet; `id` is its argument, `value` and
\* `done` what it returned last.  `log` is the history of what the engine did to the
\* payload: "push" and "pop" of a wrapper node for `node`, "pull" of the element at
\* `index` from the array `node`, "examine" when the object branch is entered for the
\* carrier `node`, "descend" when the `d` of the carrier `node` is pushed, "yield" when
\* the structure of the carrier `node` is returned.
Frame(w, pc) == [w |-> w, pc |-> pc]
Event(op, node, index) == [op |-> op, node |-> node, index |-> index]

\* new RecursiveIterator(data)
Engine(data) ==
    [st |-> RecursiveIterator(data), storage |-> <<>>, frames |-> <<>>, busy |-> FALSE,
     id |-> Undefined, value |-> Undefined, done |-> FALSE,
     log |-> <<Event("push", data, 0)>>]

ButLast(s) == SubSeq(s, 1, Len(s) - 1)
TopFrame(e) == e.frames[Len(e.frames)]
DataOf(e, w) == e.st.nodes[w].data

\* this._stackNodes.push({data}) and this._stackNodes.pop() by the engine
Pushed(e, data) ==
    [e EXCEPT !.st = push(@, WrapperNode(data)), !.log = Append(@, Event("push", data, 0))]
Popped(e) ==
    [e EXCEPT !.st = pop(@), !.log = Append(@, Event("pop", DataOf(e, currentNode(e.st)), 0))]

\* `return undefined` of _process: the activation ends, its caller goes on.
ReturnUndefined(e) == [e EXCEPT !.frames = ButLast(@)]

\* `return node.data.s` with the carrier popped before.
YieldPopped(e, s) ==
    [Popped(e) EXCEPT !.frames = <<>>, !.busy = FALSE, !.value = s, !.done = FALSE,
                      !.log = Append(@, Event("yield", DataOf(e, currentNode(e.st)), 0))]

\* `return node.data.s` with next() answering {done: true} for it.
YieldReportingDone(e, s) ==
    [e EXCEPT !.frames = <<>>, !.busy = FALSE, !.value = s, !.done = TRUE,
              !.log = Append(@, Event("yield", DataOf(e, currentNode(e.st)), 0))]

\* `return node.data.s` of line 209, handed down by every caller (lines 195-197,
\* 225-227) and returned by next() (lines 160-162): the stack stays as it is.
Yield(e, s) ==
    [e EXCEPT !.frames = <<>>, !.busy = FALSE, !.value = s, !.done = FALSE,
              !.log = Append(@, Event("yield", DataOf(e, currentNode(e.st)), 0))]

\* next(storage, id) is called
Called(e, id) == [e EXCEPT !.busy = TRUE, !.id = id, !.frames = <<>>]

\* The `while (true)` of next() without the return of lines 153-156: on an empty
\* stack the loop goes round and next() never returns.
TurnWithoutExit(e) ==
    IF e.st.processableId < 0
    THEN e
    ELSE [e EXCEPT !.frames = <<Frame(currentNode(e.st), "enter")>>]

\* One turn of the `while (true)` of next(): done, or _process is called.
Turn(e) ==
    IF e.st.processableId < 0
    THEN [e EXCEPT !.busy = FALSE, !.value = Undefined, !.done = TRUE]
    ELSE [e EXCEPT !.frames = <<Frame(currentNode(e.st), "enter")>>]

\* Lines 205-232 for the carrier o of the wrapper node w.
ObjectStep(e, w, o) ==
    LET registered == [e EXCEPT !.storage = IF Registers(o, @) THEN MapSet(@, o.f, o.s) ELSE @,
                                !.log = Append(@, Event("examine", DataOf(e, w), 0))]
    IN  IF Registers(o, e.storage) /\ o.f = e.id
        THEN Yield(registered, o.s)
        ELSE IF Truthy(o.d)
        THEN [Pushed([registered EXCEPT !.log = Append(@, Event("descend", DataOf(e, w), 0))], o.d)
                EXCEPT !.st = SetCompleted(@, w),
                       !.frames = Append(ButLast(@), Frame(w, "d"))
                                      \o <<Frame(currentNode(Pushed(registered, o.d).st), "enter")>>]
        ELSE [ReturnUndefined(Popped(registered)) EXCEPT !.st = SetCompleted(@, w)]

\* Lines 181-197 for the array of the wrapper node w, `item` being what the iterator
\* answered.
ArrayStep(h, e, w, item) ==
    LET pulled == [e EXCEPT !.st = SetIterator(@, w, item.iterator)]
    IN  IF item.done
        THEN ReturnUndefined(Popped(pulled))
        ELSE IF IsObject(h, item.value)
        THEN [Pushed([pulled EXCEPT !.log = Append(@, Event("pull", DataOf(e, w), item.iterator.currentIndex))],
                     item.value)
                EXCEPT !.frames = Append(@, Frame(currentNode(Pushed(pulled, item.value).st), "enter"))]
        ELSE [pulled EXCEPT !.log = Append(@, Event("pull", DataOf(e, w), item.iterator.currentIndex))]

\* The next step of the innermost activation of _process.
ProcessStep(h, env, e) ==
    LET w == TopFrame(e).w
    IN  IF TopFrame(e).pc = "enter"
        THEN IF IsArray(h, DataOf(e, w))
             THEN [e EXCEPT !.st = IF @.nodes[w].iterator.kind = "none"
                                   THEN SetIterator(@, w, _getIterator(env, DataOf(e, w))) ELSE @,
                            !.frames = Append(ButLast(@), Frame(w, "loop"))]
             ELSE IF IsObject(h, DataOf(e, w)) /\ ~e.st.nodes[w].completed
             THEN ObjectStep(e, w, h[DataOf(e, w)])
             ELSE ReturnUndefined(Popped(e))
        ELSE IF TopFrame(e).pc = "loop"
        THEN ArrayStep(h, e, w, IteratorNext(e.st.nodes[w].iterator, h[DataOf(e, w)].items))
        ELSE [ReturnUndefined(Popped(e)) EXCEPT !.st = SetCompleted(@, w)]

\* next(storage, id) is called on the engine e and goes on until it returns.
RECURSIVE RunNext(_, _, _)
RunNext(h, env, e) ==
    IF ~e.busy THEN e
    ELSE IF e.frames = <<>> THEN RunNext(h, env, Turn(e))
    ELSE RunNext(h, env, ProcessStep(h, env, e))

\* --------------------------------------------------------- eachFormatEntry
\* eachFormatEntry(data, callback): the carriers the callback is called on, in call
\* order.  EachItem is the `for (const item of data)` loop from element i on.
RECURSIVE eachFormatEntry(_, _)
RECURSIVE EachItem(_, _, _)
\* The loop of line 23 reporting what is under the later elements first.
EachItemBackwards(h, items, i) ==
    IF i > Len(items) THEN <<>>
    ELSE EachItem(h, items, i + 1) \o eachFormatEntry(h, items[i])

EachItem(h, items, i) ==
    IF i > Len(items) THEN <<>>
    ELSE eachFormatEntry(h, items[i]) \o EachItem(h, items, i + 1)

eachFormatEntry(h, data) ==
    IF IsArray(h, data)
    THEN EachItem(h, h[data].items, 1)
    ELSE IF Truthy(data) /\ IsRef(data)
    THEN (IF h[data].s # Undefined \/ h[data].f # Undefined THEN <<data>> ELSE <<>>)
         \o (IF Truthy(h[data].d) THEN eachFormatEntry(h, h[data].d) ELSE <<>>)
    ELSE <<>>

\* --------------------------------------------------- SbisFormatController
\* this._generator: unset, or the engine it refers to.
NoGenerator == [defined |-> FALSE, st |-> RecursiveStack]

\* constructor(data)
SbisFormatController(data) == [_cache |-> <<>>, _data |-> data, _generator |-> NoGenerator]

\* _clone(format): format.slice() is a new list with the same elements.
\* The new list gets the first reference not in use.
FreshRef(lists) ==
    CHOOSE n \in 1..(Cardinality(DOMAIN lists) + 1) :
        n \notin DOMAIN lists /\ \A m \in 1..(n - 1) : m \in DOMAIN lists

\* _clone returning `format` itself instead of format.slice().
_cloneShared(lists, format) == [lists |-> lists, ref |-> format]

_clone(lists, format) ==
    [lists |-> MapSet(lists, FreshRef(lists), lists[format]), ref |-> FreshRef(lists)]

\* get generator(): the stored engine when there is one, else a new engine on the
\* bound data.  The getter returns the new engine without storing it.
generator(c) ==
    IF c._generator.defined
    THEN [st |-> c._generator.st, created |-> FALSE]
    ELSE [st |-> RecursiveIterator(c._data), created |-> TRUE]

\* getFormat returning `this._clone(format)` whatever `copy` is.
ReturnAlwaysCloned(c, lists, format, copy, hit, created, st) ==
    [c |-> c, lists |-> _clone(lists, format).lists, value |-> _clone(lists, format).ref,
     threw |-> FALSE, hit |-> hit, created |-> created, st |-> st]

\* What a call of getFormat leaves: the controller, the list heap, the returned list
\* (value), whether it threw, and what it did on the way (a cache hit, an engine
\* constructed, the stack of the engine it drove).
\*   Return      `copy ? this._clone(format) : format` of lines 292 and 301;
\*   Traversed   lines 297-301, after the engine answered `result`.
Return(c, lists, format, copy, hit, created, st) ==
    [c |-> c,
     lists |-> IF copy THEN _clone(lists, format).lists ELSE lists,
     value |-> IF copy THEN _clone(lists, format).ref ELSE format,
     threw |-> FALSE, hit |-> hit, created |-> created, st |-> st]

\* The engine has worked on the controller's own cache; when it is the stored engine
\* its stack is the stored engine's.
Driven(c, result) ==
    [c EXCEPT !._cache = result.storage,
              !._generator = IF @.defined THEN [@ EXCEPT !.st = result.st] ELSE @]

\* Lines 297-301 without the throw: an exhausted engine's `undefined` is returned.
TraversedWithoutThrow(c, lists, copy, created, result) ==
    [c |-> Driven(c, result), lists |-> lists, value |-> result.value,
     threw |-> FALSE, hit |-> FALSE, created |-> created, st |-> result.st]

Traversed(c, lists, copy, created, result) ==
    IF result.done
    THEN [c |-> Driven(c, result), lists |-> lists, value |-> Undefined,
          threw |-> TRUE, hit |-> FALSE, created |-> created, st |-> result.st]
    ELSE Return(Driven(c, result), lists, result.value, copy, FALSE, created, result.st)

getFormat(h, env, lists, c, id, copy) ==
    IF id \in DOMAIN c._cache
    THEN Return(c, lists, c._cache[id], copy, TRUE, FALSE, RecursiveStack)
    ELSE Traversed(c, lists, copy, generator(c).created,
                   next(h, env, generator(c).st, c._cache, id))

\* setOriginal storing `data` itself instead of this._clone(data).
setOriginalShared(lists, c, id, data) ==
    [c |-> [c EXCEPT !._cache = MapSet(@, id, data)], lists |-> lists]

\* setOriginal(id, data)
setOriginal(lists, c, id, data) ==
    [c |-> [c EXCEPT !._cache = MapSet(@, id, _clone(lists, data).ref)],
     lists |-> _clone(lists, data).lists]

\* typeof data === 'object': objects, arrays and null.
TypeofObject(data) == IsRef(data) \/ data = Null

\* scanFormats running its engine on a map of its own instead of this._cache.
ScannedAside(c, result) ==
    [c |-> c, ran |-> TRUE, st |-> result.st, value |-> result.value, done |-> result.done]

\* scanFormats binding the controller to the data it has scanned.
ScannedRebinding(c, result) ==
    [c |-> [c EXCEPT !._cache = result.storage, !._data = result.st.nodes[1].data],
     ran |-> TRUE, st |-> result.st, value |-> result.value, done |-> result.done]

\* scanFormats(data): the controller afterwards and what the engine it ran answered.
Scanned(c, result) ==
    [c |-> [c EXCEPT !._cache = result.storage], ran |-> TRUE,
     st |-> result.st, value |-> result.value, done |-> result.done]

scanFormats(h, env, c, data) ==
    IF TypeofObject(data)
    THEN Scanned(c, next(h, env, RecursiveIterator(data), c._cache, Undefined))
    ELSE [c |-> c, ran |-> FALSE, st |-> RecursiveStack, value |-> Undefined, done |-> FALSE]

RECURSIVE RecoverEntries(_, _, _, _, _)
\* Lines 41-43 with `delete entry.f` done at once, in the callback.
ResolvedDeletingId(env, lists, entries, i, x, got) ==
    IF got.threw
    THEN [h |-> x.h, c |-> got.c, threw |-> TRUE, created |-> x.created \/ got.created]
    ELSE RecoverEntries(env, lists, entries, i + 1,
                        [h |-> [x.h EXCEPT ![entries[i]].s = got.value,
                                           ![entries[i]].f = Undefined],
                         c |-> got.c, threw |-> FALSE, created |-> x.created \/ got.created])

\* recoverFormats(data, controller): the callback run on the entries eachFormatEntry
\* reports, from entry i on.  x is [h, c, threw, created]: the payload heap, the
\* controller, whether a getFormat has thrown (which ends the walk) and whether a
\* getFormat constructed an engine.  Resolved is lines 41-43 once getFormat answered.
Resolved(env, lists, entries, i, x, got) ==
    IF got.threw
    THEN [h |-> x.h, c |-> got.c, threw |-> TRUE, created |-> x.created \/ got.created]
    ELSE RecoverEntries(env, lists, entries, i + 1,
                        [h |-> [x.h EXCEPT ![entries[i]].s = got.value], c |-> got.c,
                         threw |-> FALSE, created |-> x.created \/ got.created])

RecoverEntries(env, lists, entries, i, x) ==
    IF i > Len(entries) \/ x.threw THEN x
    ELSE IF Truthy(x.h[entries[i]].s)
         THEN RecoverEntries(env, lists, entries, i + 1, x)
         ELSE Resolved(env, lists, entries, i, x,
                       getFormat(x.h, env, lists, x.c, x.h[entries[i]].f, FALSE))

recoverFormats(h, env, lists, c, data) ==
    RecoverEntries(env, lists, eachFormatEntry(h, data), 1,
                   [h |-> h, c |-> c, threw |-> FALSE, created |-> FALSE])

\* recoverData without the `delete recovered.f` of lines 318-320.
RecoveredKeepingIds(c, data, given, r, recovered) ==
    [h |-> r.h, c |-> IF given THEN r.c ELSE c, used |-> r.c, threw |-> r.threw,
     created |-> r.created, value |-> IF r.threw THEN Undefined ELSE data]

\* static recoverData(data, controller?): `given` tells whether a controller was
\* passed; without one a new controller bound to data is used.  Recovered is lines
\* 318-322 on what recoverFormats left (r) and the entries it returned.
Recovered(c, data, given, r, recovered) ==
    [h |-> IF r.threw THEN r.h
           ELSE [n \in DOMAIN r.h |->
                    IF n \in recovered THEN [r.h[n] EXCEPT !.f = Undefined] ELSE r.h[n]],
     c |-> IF given THEN r.c ELSE c,
     used |-> r.c,
     threw |-> r.threw,
     created |-> r.created,
     value |-> IF r.threw THEN Undefined ELSE data]

recoverData(h, env, lists, c, data, given) ==
    Recovered(c, data, given,
              recoverFormats(h, env, lists, IF given THEN c ELSE SbisFormatController(data), data),
              {eachFormatEntry(h, data)[i] : i \in 1..Len(eachFormatEntry(h, data))})

\* ---------------------------------------------------------------- payloads
\* What a carrier of a generated payload holds: an id or none, a structure or none.
Labels == [f : {Undefined} \cup Ids, s : BOOLEAN]

\* The structure literal of the carrier at heap index n (field descriptors {n: name}).
Names == <<"r", "id", "c", "x", "y", "z", "o1", "o2", "o3", "o4">>
Structure(n) ==
    IF n = 5 THEN <<>>
    ELSE IF n = 6 THEN <<[n |-> "z"], [n |-> "w"]>>
    ELSE <<[n |-> Names[n]]>>

\* The carrier at heap index n: its structure list, when it has one, is list n.
Carrier(n, label, d) == Obj(label.f, IF label.s THEN n ELSE Undefined, d)

\* A table: [{l1, d: [{l2}, {l3}]}]
TableShape(l1, l2, l3) ==
    << Arr(<<2>>), Carrier(2, l1, 3), Arr(<<4, 5>>),
       Carrier(4, l2, Undefined), Carrier(5, l3, Undefined) >>

\* A record: {l1, d: [{l2, d: {l3, d: 0}}, 0, [{l4}, null]]}
RecordShape(l1, l2, l3, l4) ==
    << Carrier(1, l1, 2), Arr(<<3, Prim, 5>>), Carrier(3, l2, 4),
       Carrier(4, l3, Prim), Arr(<<6, Null>>), Carrier(6, l4, Undefined) >>

\* Data that is not part of the bound payload, at heap indices off + 1 ..:
\* [{f: 1, s}, {f: MaxId + 1, s}, {f: 2}]
OtherData(off) ==
    << Arr(<<off + 2, off + 3, off + 4>>),
       Obj(1, off + 2, Undefined), Obj(MaxId + 1, off + 3, Undefined),
       Obj(2, Undefined, Undefined) >>

\* Every labelling of the two shapes.
AllPayloads ==
    {TableShape(l1, l2, l3) : l1 \in Labels, l2 \in Labels, l3 \in Labels}
    \cup {RecordShape(l1, l2, l3, l4) : l1 \in Labels, l2 \in Labels, l3 \in Labels, l4 \in Labels}

\* The labellings in which every carrier has an id (a declaration or a back-reference)
\* and the outermost carrier's id is 1.
WithId == {l \in Labels : l.f # Undefined}
Outer == {l \in WithId : l.f = 1}
CorePayloads ==
    {TableShape(l1, l2, l3) : l1 \in Outer, l2 \in WithId, l3 \in WithId}
    \cup {RecordShape(l1, l2, l3, l2) : l1 \in Outer, l2 \in WithId, l3 \in Outer}

\* ------------------------------------------------------- DestroyableMixin
\* An instance of a class that mixes DestroyableMixin in is what `for (key in this)`
\* sees of it: for every key the kind of value this[key] is.
\*   "method"    a function of the class (destroy and isDestroyed are such);
\*   "function"  a function kept in a field of the instance;
\*   "accessor"  a property with a getter returning no function (destroyed is such);
\*   "value"     a field holding something that is no function;
\*   "dead"      dontTouchDeads.
\* `mark` is this[$destroyed]: "undefined" until destroy() sets it to "true".
MixinKeys == {"destroy", "destroyed", "isDestroyed"}
ClassKeys == {"getId", "handler", "title"}
Kinds == {"method", "function", "value"}

NewInstance(shape) ==
    [mark |-> "undefined",
     members |-> [k \in MixinKeys \cup ClassKeys |->
                     IF k \in ClassKeys THEN shape[k]
                     ELSE IF k = "destroyed" THEN "accessor" ELSE "method"]]

\* typeof this[key] === 'function'
TypeofFunction(kind) == kind \in {"method", "function", "dead"}

\* get destroyed(): Boolean(this[$destroyed])
destroyed(i) == i.mark = "true"

\* destroy() without the `switch (key)`: every function of the instance is replaced,
\* destroy and isDestroyed too.
destroyEverything(i) ==
    [mark |-> "true",
     members |-> [k \in DOMAIN i.members |->
                     IF TypeofFunction(i.members[k]) THEN "dead" ELSE i.members[k]]]

\* destroy(): the instance afterwards
destroy(i) ==
    [mark |-> "true",
     members |-> [k \in DOMAIN i.members |->
                     IF k \in MixinKeys THEN i.members[k]
                     ELSE IF TypeofFunction(i.members[k]) THEN "dead"
                     ELSE i.members[k]]]

\* What calling instance[key](...) does: dontTouchDeads throws ReferenceError, destroy
\* marks the instance, isDestroyed returns this.destroyed, another function of the
\* class runs; what is no function cannot be called (TypeError).
NoAnswer == [key |-> "", threw |-> "", value |-> FALSE, lived |-> TRUE]
Invoke(i, key) ==
    IF i.members[key] = "dead"
    THEN [i |-> i, threw |-> "ReferenceError", value |-> FALSE]
    ELSE IF ~TypeofFunction(i.members[key])
    THEN [i |-> i, threw |-> "TypeError", value |-> FALSE]
    ELSE IF key = "destroy" THEN [i |-> destroy(i), threw |-> "", value |-> FALSE]
    ELSE IF key = "isDestroyed" THEN [i |-> i, threw |-> "", value |-> destroyed(i)]
    ELSE [i |-> i, threw |-> "", value |-> FALSE]

\* ------------------------------------------------------ HierarchicalMemory
\* The data of the source: its records by key, each with the value of its parent
\* property (a key, which need not be the key of a record, or Null).  A record is
\* known by its key.
Keys == 0..MaxKey
SourceData ==
    UNION {[K -> Keys \cup {Null}] : K \in (SUBSET Keys) \ {{}}}

\* A value of the loop variable startFromNode: a record, or the key of one.
AsRecord(key) == [record |-> TRUE, key |-> key]
AsKey(key) == [record |-> FALSE, key |-> key]

\* The truth value JavaScript gives it: a record is an object, a key is a number.
TruthyNode(v) == v.record \/ v.key # 0

\* RecordSet.getRecordById(id): the record, or Undefined
getRecordById(data, id) == IF id \in DOMAIN data THEN id ELSE Undefined

\* Hierarchy._asRecord(value, rs): the record itself, or the record with that key;
\* throws ReferenceError when there is none.
_asRecord(data, value) ==
    IF value.record THEN [threw |-> FALSE, key |-> value.key]
    ELSE IF value.key \in DOMAIN data THEN [threw |-> FALSE, key |-> value.key]
    ELSE [threw |-> TRUE, key |-> Undefined]

\* Hierarchy.getParent(child, rs): the parent record, Null for a root.
getParent(data, child) ==
    IF _asRecord(data, child).threw THEN [threw |-> TRUE, node |-> Undefined]
    ELSE IF data[_asRecord(data, child).key] = Null THEN [threw |-> FALSE, node |-> Null]
    ELSE [threw |-> _asRecord(data, AsKey(data[_asRecord(data, child).key])).threw,
          node |-> _asRecord(data, AsKey(data[_asRecord(data, child).key])).key]

\* RecordSet.add(record, 0)
AddFirst(breadcrumbs, node) == <<node>> \o breadcrumbs

\* A source with its data, with or without a parent property, and the query it is
\* serving: `phase` is "idle", "extracting" (in the while loop), "resolved" or
\* "rejected"; `where` is the value of the parent property in the where clause
\* (Undefined when the clause has none); `stored` tells that meta.path was set.
HierarchicalMemory(data, parentProperty) ==
    [data |-> data, parentProperty |-> parentProperty, phase |-> "idle",
     where |-> Undefined, startFromNode |-> AsKey(0), breadcrumbs |-> <<>>,
     stored |-> FALSE, path |-> <<>>]

\* -------------------------------------------------------- CancelablePromise
\* What an original promise resolves with or rejects with, and the reasons a caller
\* gives to cancel(); NoReason is cancel() without argument.
Results == {"ok", "done", "undefined"}
Failures == {"fail", "error", "undefined"}
NoReason == "true"
Reasons == {"Something wrong", "Stop", NoReason}

\* The original promise: pending, or settled with its value or rejection reason.
PendingOrigin == [state |-> "pending", with |-> "undefined"]
Origins ==
    {PendingOrigin}
        \cup {[state |-> "resolved", with |-> v] : v \in Results}
        \cup {[state |-> "rejected", with |-> e] : e \in Failures}

\* new PromiseCanceledError(reason): isCanceled is true, the message is the reason
\* given to cancel().
PromiseCanceledError(reason) ==
    [name |-> "PromiseCanceledError", isCanceled |-> TRUE,
     message |-> IF reason = NoReason THEN "" ELSE reason]

\* A rejection reason that is not an error of cancellation, and a value.
Plain(with) == [name |-> with, isCanceled |-> FALSE, message |-> ""]

\* new CancelablePromise(origin): `promise` is pending until the outcome of the origin
\* is delivered, `chained` is the chain hung on the origin, `_canceled` is "false" or
\* what cancel() left.
CancelablePromise(origin) ==
    [origin |-> origin, _canceled |-> "false",
     promise |-> [state |-> "pending", with |-> Plain("undefined")],
     chained |-> "pending"]

\* cancel(reason)
cancel(p, reason) == [p EXCEPT !._canceled = reason]

\* The outcome of the origin delivered without looking at cancel().
SettleTransparently(p) ==
    [p EXCEPT !.promise = [state |-> p.origin.state, with |-> Plain(p.origin.with)],
              !.chained = "resolved"]

\* The outcome of the origin delivered to the chain: a cancelled instance rejects its
\* promise with PromiseCanceledError, another one hands the outcome on; the chain
\* itself catches the rejection.  A settled promise stays as it is.
Settle(p) ==
    IF p.promise.state # "pending" THEN p
    ELSE IF p._canceled # "false"
    THEN [p EXCEPT !.promise = [state |-> "rejected", with |-> PromiseCanceledError(p._canceled)],
                   !.chained = "resolved"]
    ELSE [p EXCEPT !.promise = [state |-> p.origin.state, with |-> Plain(p.origin.with)],
                   !.chained = "resolved"]

\* ------------------------------------------------------- itemsStrategy.Group
\* A group id that is not a number: Array.prototype.indexOf never finds it.
NaN == -3

\* array.indexOf(x), zero based, -1 when absent (strict equality, so never NaN)
IndexOf(array, x) ==
    IF x = NaN \/ \A i \in 1..Len(array) : array[i] # x
    THEN -1
    ELSE (CHOOSE i \in 1..Len(array) :
              array[i] = x /\ \A j \in 1..(i - 1) : array[j] # x) - 1

\* The handlers: none, one that groups by the contents of the item, one that groups
\* by its position (odd or even).
NoHandler == "undefined"
Handlers == {NoHandler, "contents", "position"}
Handle(handler, contents, position) ==
    IF handler = "contents" THEN contents ELSE position % 2

\* The items of the decorated strategy, each given by its contents; a GroupItem is
\* given by its contents, the group id.
Contents == {1, NaN}
ItemLists == UNION {[1..n -> Contents] : n \in 0..MaxItems}
GroupItem(contents) == [group |-> TRUE, contents |-> contents]
CollectionItem(contents) == [group |-> FALSE, contents |-> contents]

\* sortItems, the loop body: the group index of an id, the groups with a group for it,
\* the groups order with its index, the items of the groups with the position.
GroupIndex(groups, groupId) ==
    IF IndexOf(groups, groupId) = -1 THEN Len(groups) ELSE IndexOf(groups, groupId)
GroupsWith(groups, groupId) ==
    IF IndexOf(groups, groupId) = -1 THEN Append(groups, groupId) ELSE groups
\* `groupsOrder.push(groupIndex)` without the test that it is not there yet
RememberedAgain(groupsOrder, groupIndex) == Append(groupsOrder, groupIndex)
Remembered(groupsOrder, groupIndex) ==
    IF IndexOf(groupsOrder, groupIndex) = -1
    THEN Append(groupsOrder, groupIndex)
    ELSE groupsOrder
ItemsWith(groupsItems, groupIndex, position) ==
    MapSet(groupsItems, groupIndex,
           Append(IF groupIndex \in DOMAIN groupsItems THEN groupsItems[groupIndex] ELSE <<>>,
                  position))

\* sortItems, the loop over the positions from `position` on
RECURSIVE Joined(_, _, _, _, _, _)
Joined(items, handler, position, groups, groupsOrder, groupsItems) ==
    IF position >= Len(items)
    THEN [groups |-> groups, groupsOrder |-> groupsOrder, groupsItems |-> groupsItems]
    ELSE Joined(items, handler, position + 1,
                GroupsWith(groups, Handle(handler, items[position + 1], position)),
                Remembered(groupsOrder,
                           GroupIndex(groups, Handle(handler, items[position + 1], position))),
                ItemsWith(groupsItems,
                          GroupIndex(groups, Handle(handler, items[position + 1], position)),
                          position))

\* sortItems, the result filled by groups from the k-th remembered group on
RECURSIVE Filled(_, _, _, _)
Filled(groupsOrder, groupsItems, groupsCount, k) ==
    IF k > Len(groupsOrder)
    THEN <<>>
    ELSE <<groupsOrder[k]>>
         \o [i \in 1..Len(groupsItems[groupsOrder[k]]) |->
                groupsItems[groupsOrder[k]][i] + groupsCount]
         \o Filled(groupsOrder, groupsItems, groupsCount, k + 1)

FilledFrom(joined) ==
    [groups |-> joined.groups,
     result |-> Filled(joined.groupsOrder, joined.groupsItems, Len(joined.groups), 1)]

\* Group.sortItems(items, {handler, groups}): the order, and the groups list it has
\* changed in place.
sortItems(items, handler, groups) ==
    IF handler = NoHandler
    THEN [groups |-> <<>>, result |-> [i \in 1..Len(items) |-> i - 1]]
    ELSE FilledFrom(Joined(items, handler, 0, groups, <<>>, <<>>))

\* _itemsOrder: null, or an array
NoOrder == [null |-> TRUE, array |-> <<>>]
Order(array) == [null |-> FALSE, array |-> array]

\* What a call returned or threw.
NoOut == [op |-> "none", thrown |-> "", value |-> <<>>]

\* new Group({source, handler}); `created` counts the runs of _createItemsOrder since
\* the order was last set to null.
Group(items, handler) ==
    [source |-> [items |-> items],
     handler |-> handler,
     _groups |-> <<>>,
     _itemsOrder |-> NoOrder,
     created |-> 0,
     out |-> NoOut]

_getItems(s) ==
    [i \in 1..Len(s._groups) |-> GroupItem(s._groups[i])]
    \o [i \in 1..Len(s.source.items) |-> CollectionItem(s.source.items[i])]

_createItemsOrder(s) == sortItems(s.source.items, s.handler, s._groups)

\* _getItemsOrder computing the order on every call
_getItemsOrderAfresh(s) ==
    [s EXCEPT !._itemsOrder = Order(_createItemsOrder(s).result),
              !._groups = _createItemsOrder(s).groups,
              !.created = @ + 1]

\* _getItemsOrder: the strategy after the call, the order in its _itemsOrder
_getItemsOrder(s) ==
    IF s._itemsOrder.null
    THEN [s EXCEPT !._itemsOrder = Order(_createItemsOrder(s).result),
                   !._groups = _createItemsOrder(s).groups,
                   !.created = @ + 1]
    ELSE s

Returned(s, op, value) == [s EXCEPT !.out = [op |-> op, thrown |-> "", value |-> value]]
Thrown(s, op, error) == [s EXCEPT !.out = [op |-> op, thrown |-> error, value |-> <<>>]]

\* get count, get items and at(index), on the strategy after _getItemsOrder
CountOf(s) == Returned(s, "count", Len(s._itemsOrder.array))
count(s) == CountOf(_getItemsOrder(s))

ItemsOf(s) ==
    Returned(s, "items",
             [k \in 1..Len(s._itemsOrder.array) |-> _getItems(s)[s._itemsOrder.array[k] + 1]])
itemsOfStrategy(s) == ItemsOf(_getItemsOrder(s))

AtOf(s, index) ==
    IF index + 1 \notin 1..Len(s._itemsOrder.array)
    THEN Thrown(s, "at", "ReferenceError")
    ELSE Returned(s, "at", <<_getItems(s)[s._itemsOrder.array[index + 1] + 1]>>)
at(s, index) == AtOf(_getItemsOrder(s), index)

\* source.splice(start, deleteCount, added) on the items of the source
SourceSplice(array, start, deleteCount, added) ==
    SubSeq(array, 1, start) \o added \o SubSeq(array, start + deleteCount + 1, Len(array))

splice(s, start, deleteCount, added) ==
    [s EXCEPT !._itemsOrder = NoOrder,
              !.created = 0,
              !.source.items = SourceSplice(@, start, deleteCount, added),
              !.out = [op |-> "splice", thrown |-> "",
                       value |-> SubSeq(s.source.items, start + 1, start + deleteCount)]]

reset(s) ==
    [s EXCEPT !._groups = <<>>, !._itemsOrder = NoOrder, !.created = 0,
              !.out = [op |-> "reset", thrown |-> "", value |-> <<>>]]

invalidate(s) ==
    [s EXCEPT !._itemsOrder = NoOrder, !.created = 0,
              !.out = [op |-> "invalidate", thrown |-> "", value |-> <<>>]]

\* set handler
SetHandlerTo(s, value) ==
    [s EXCEPT !.handler = value, !.out = [op |-> "handler", thrown |-> "", value |-> <<>>]]

\* A strategy nobody has constructed.
NoStrategy == Group(<<>>, NoHandler)

\* ------------------------------------------------------------------ state
VARIABLES
    heap,        \* the objects and arrays of the payloads
    lists,       \* the structure lists: list reference -> content
    env,         \* RecursiveIterator.doesEnvSupportIterator()
    controller,  \* the SbisFormatController bound to the payload at heap index 1
    held,        \* the list the caller kept from a getFormat call
    scanned,     \* history: the data scanFormats has run on
    started,     \* history: the generator getter has constructed an engine
    seeded,      \* history: the ids setOriginal was called for
    foreign,     \* history: the ids scanFormats of other data put into the cache
    instance,    \* an instance of a class with DestroyableMixin
    answer,      \* what the last call on the instance did
    source,      \* a HierarchicalMemory and the query it serves
    promise,     \* a CancelablePromise
    engine,      \* a RecursiveIterator on the bound payload, followed step by step
    reader,      \* an IteratorArray on an array of its own, and what its next() returned
    strategy     \* a Group items strategy and the items of its source

\* The variables of the format controller and its caller, and the others.
formatVars == <<heap, lists, env, controller, held, scanned, started, seeded, foreign>>
outsideFormats == <<instance, answer, source, promise, engine, reader, strategy>>
outsideSource == <<heap, lists, env, controller, held, scanned, started, seeded, foreign, instance, answer, promise, engine, reader, strategy>>
outsidePromise == <<heap, lists, env, controller, held, scanned, started, seeded, foreign, instance, answer, source, engine, reader, strategy>>
outsideEngine == <<lists, controller, held, scanned, started, seeded, foreign, instance, answer, source, promise, reader, strategy>>
outsideReader == <<heap, lists, env, controller, held, scanned, started, seeded, foreign, instance, answer, source, promise, engine, strategy>>
outsideStrategy == <<heap, lists, env, controller, held, scanned, started, seeded, foreign, instance, answer, source, promise, engine, reader>>
outsideInstance == <<heap, lists, env, controller, held, scanned, started, seeded, foreign, source, promise, engine, reader, strategy>>
vars == <<heap, lists, env, controller, held, scanned, started, seeded, foreign,
          instance, answer, source, promise, engine, reader, strategy>>

\* The state of what is outside the format controller when only the controller runs.
OutsideFormatsInit ==
    /\ instance = NewInstance([k \in ClassKeys |-> "method"])
    /\ answer = NoAnswer
    /\ source = HierarchicalMemory([k \in {1} |-> Null], TRUE)
    /\ promise = CancelablePromise(PendingOrigin)
    /\ engine = Engine(Undefined)
    /\ reader = NoReader
    /\ strategy = NoStrategy

\* The root of the bound payload, the root of the other data, and the list the caller
\* keeps to pass to setOriginal.
Root == 1
Other(h) == Len(h) - Len(OtherData(0)) + 1
CallerList(h) == Len(h) + 1
FieldOfCaller == [n |-> "seed"]
FieldOfMutation == [n |-> "mut"]

\* What the caller keeps from a getFormat call: the list, the id and copy flag it asked
\* with, whether the call was a cache hit, whether the caller has changed the list
\* since, and how many changes the caller has made in all.
NoList == [ref |-> Undefined, id |-> Undefined, copy |-> FALSE, hit |-> FALSE,
           changed |-> FALSE, changes |-> 0]

\* Lists nobody refers to any more are collected: the payloads' own lists and the
\* caller's stay, and so do those a carrier, the cache or the caller holds.
Collect(h, ls, c, kept) ==
    [r \in {x \in DOMAIN ls :
               \/ x <= CallerList(h)
               \/ x = kept
               \/ \E n \in DOMAIN h : h[n].s = x
               \/ \E id \in DOMAIN c._cache : c._cache[id] = x} |-> ls[r]]

\* The state after `new SbisFormatController(data)` on the payload p.
InitOn(p) ==
    /\ heap = p \o OtherData(Len(p))
    /\ lists = [n \in 1..(Len(heap) + 1) |->
                   IF n = CallerList(heap) THEN <<FieldOfCaller>> ELSE Structure(n)]
    /\ env \in BOOLEAN
    /\ controller = SbisFormatController(Root)
    /\ held = NoList
    /\ scanned = {}
    /\ started = FALSE
    /\ seeded = {}
    /\ foreign = {}

Init == (\E p \in CorePayloads : InitOn(p)) /\ OutsideFormatsInit

\* controller.getFormat(id, copy), the caller dropping what it gets
GetFormatReturns(r) ==
    /\ controller' = r.c
    /\ lists' = Collect(heap, r.lists, r.c, held.ref)
    /\ started' = (started \/ r.created)
    /\ UNCHANGED <<heap, env, held, scanned, seeded, foreign>>
    /\ UNCHANGED outsideFormats

GetFormat(id, copy) == GetFormatReturns(getFormat(heap, env, lists, controller, id, copy))

\* controller.setOriginal(id, data), data being the caller's list
SetOriginalReturns(id, r) ==
    /\ Cardinality(seeded \cup {id}) <= MaxSeeds
    /\ controller' = r.c
    /\ lists' = Collect(heap, r.lists, r.c, held.ref)
    /\ seeded' = seeded \cup {id}
    /\ UNCHANGED <<heap, env, held, scanned, started, foreign>>
    /\ UNCHANGED outsideFormats

SetOriginal(id) == SetOriginalReturns(id, setOriginal(lists, controller, id, CallerList(heap)))

\* controller.scanFormats(data)
ScanFormatsReturns(data, r) ==
    /\ controller' = r.c
    /\ scanned' = IF r.ran /\ IsRef(data) THEN scanned \cup {data} ELSE scanned
    /\ foreign' = IF data = Root THEN foreign
                  ELSE foreign \cup ((DOMAIN r.c._cache) \ (DOMAIN controller._cache))
    /\ UNCHANGED <<heap, lists, env, held, started, seeded>>
    /\ UNCHANGED outsideFormats

ScanFormats(data) == ScanFormatsReturns(data, scanFormats(heap, env, controller, data))

\* SbisFormatController.recoverData(data) and recoverData(data, controller)
RecoverDataReturns(given, r) ==
    /\ heap' = r.h
    /\ controller' = r.c
    /\ started' = (started \/ (given /\ r.created))
    /\ UNCHANGED <<lists, env, held, scanned, seeded, foreign>>
    /\ UNCHANGED outsideFormats

RecoverData(data, given) ==
    RecoverDataReturns(given, recoverData(heap, env, lists, controller, data, given))

Next ==
    \/ \E id \in LookupIds, copy \in BOOLEAN : GetFormat(id, copy)
    \/ \E id \in LookupIds : SetOriginal(id)
    \/ \E data \in {Root, Other(heap), Null, Prim} : ScanFormats(data)
    \/ \E data \in {Root, Other(heap)}, given \in BOOLEAN : RecoverData(data, given)

Spec == Init /\ [][Next]_vars

\* ------------------------------------------------------- lookups only
\* A controller on which nothing but getFormat is called, on every labelling.
InitLookups == (\E p \in AllPayloads : InitOn(p)) /\ OutsideFormatsInit

NextLookups == \E id \in LookupIds, copy \in BOOLEAN : GetFormat(id, copy)

SpecLookups == InitLookups /\ [][NextLookups]_vars

\* ------------------------------------------------- a caller changing lists
\* controller.getFormat(id, copy), the caller keeping the list it gets (nothing when
\* the call throws).
KeepFormatReturns(id, copy, r) ==
    /\ controller' = r.c
    /\ held' = IF r.threw THEN [NoList EXCEPT !.changes = held.changes]
               ELSE [ref |-> r.value, id |-> id, copy |-> copy, hit |-> r.hit,
                     changed |-> FALSE, changes |-> held.changes]
    /\ lists' = Collect(heap, r.lists, r.c, r.value)
    /\ started' = (started \/ r.created)
    /\ UNCHANGED <<heap, env, scanned, seeded, foreign>>
    /\ UNCHANGED outsideFormats

KeepFormat(id, copy) ==
    KeepFormatReturns(id, copy, getFormat(heap, env, lists, controller, id, copy))

\* What list.push(field), list.shift() and list[0] = field make of a list.
Changes == {"add", "remove", "replace"}
ChangedList(content, change) ==
    IF change = "add" THEN Append(content, FieldOfMutation)
    ELSE IF change = "remove" THEN (IF content = <<>> THEN content ELSE Tail(content))
    ELSE IF content = <<>> THEN <<FieldOfMutation>>
    ELSE [content EXCEPT ![1] = FieldOfMutation]

\* The caller changes the list it holds.
Mutate(change) ==
    /\ held.ref # Undefined
    /\ held.changes < MaxChanges
    /\ lists' = [lists EXCEPT ![held.ref] = ChangedList(@, change)]
    /\ held' = [held EXCEPT !.changed = TRUE, !.changes = @ + 1]
    /\ UNCHANGED <<heap, env, controller, scanned, started, seeded, foreign>>
    /\ UNCHANGED outsideFormats

NextCaller ==
    \/ \E id \in LookupIds, copy \in BOOLEAN : KeepFormat(id, copy)
    \/ \E change \in Changes : Mutate(change)

SpecCaller == Init /\ [][NextCaller]_vars

\* ------------------------------------------- a caller seeding the cache
\* The caller changes the list it passes to setOriginal.
ChangeFields(change) ==
    /\ held.changes < MaxChanges
    /\ lists' = [lists EXCEPT ![CallerList(heap)] = ChangedList(@, change)]
    /\ held' = [held EXCEPT !.changes = @ + 1]
    /\ UNCHANGED <<heap, env, controller, scanned, started, seeded, foreign>>
    /\ UNCHANGED outsideFormats

NextSeeder ==
    \/ \E id \in LookupIds : SetOriginal(id)
    \/ \E change \in Changes : ChangeFields(change)
    \/ \E id \in LookupIds, copy \in BOOLEAN : GetFormat(id, copy)

SpecSeeder == Init /\ [][NextSeeder]_vars

\* ------------------------------------------- an instance and its user
\* The state of the format controller when something else runs: a new controller on
\* a table.
FormatsInit ==
    /\ InitOn(TableShape([f |-> 1, s |-> TRUE], [f |-> 2, s |-> TRUE], [f |-> 1, s |-> FALSE]))
    /\ env = TRUE

\* A new instance of a class with any kinds of members.
InitInstance ==
    /\ FormatsInit
    /\ \E shape \in [ClassKeys -> Kinds] : instance = NewInstance(shape)
    /\ answer = NoAnswer
    /\ source = HierarchicalMemory([k \in {1} |-> Null], TRUE)
    /\ promise = CancelablePromise(PendingOrigin)
    /\ engine = Engine(Undefined)
    /\ reader = NoReader
    /\ strategy = NoStrategy

\* instance[key](...) for a key that holds a function of the class
Call(key) ==
    /\ instance' = Invoke(instance, key).i
    /\ answer' = [key |-> key, threw |-> Invoke(instance, key).threw,
                  value |-> Invoke(instance, key).value, lived |-> ~destroyed(instance)]
    /\ UNCHANGED outsideInstance

\* instance.destroyed
ReadDestroyed ==
    /\ answer' = [key |-> "destroyed", threw |-> "", value |-> destroyed(instance),
                  lived |-> ~destroyed(instance)]
    /\ UNCHANGED instance
    /\ UNCHANGED outsideInstance

NextInstance ==
    \/ \E key \in (MixinKeys \cup ClassKeys) \ {"destroyed"} : Call(key)
    \/ ReadDestroyed

SpecInstance == InitInstance /\ [][NextInstance]_vars

\* ------------------------------------------------ a hierarchical source
InitSource ==
    /\ FormatsInit
    /\ instance = NewInstance([k \in ClassKeys |-> "method"])
    /\ answer = NoAnswer
    /\ \E data \in SourceData, parentProperty \in BOOLEAN :
          source = HierarchicalMemory(data, parentProperty)
    /\ promise = CancelablePromise(PendingOrigin)
    /\ engine = Engine(Undefined)
    /\ reader = NoReader
    /\ strategy = NoStrategy

\* The path stored, the query resolved.
Answered(s, stored, breadcrumbs) ==
    [s EXCEPT !.phase = "resolved", !.stored = stored, !.path = breadcrumbs,
              !.breadcrumbs = breadcrumbs]

\* query(query) up to the while loop: `where` is the value the where clause gives the
\* parent property, Undefined when it names none.
Query(where) ==
    /\ source.phase = "idle"
    /\ source' =
          IF ~source.parentProperty
          THEN [Answered(source, FALSE, <<>>) EXCEPT !.where = where]
          ELSE IF where = Undefined \/ getRecordById(source.data, where) = Undefined
          THEN [Answered(source, TRUE, <<>>) EXCEPT !.where = where]
          ELSE [source EXCEPT !.phase = "extracting", !.where = where,
                              !.breadcrumbs = AddFirst(<<>>, getRecordById(source.data, where)),
                              !.startFromNode = AsRecord(getRecordById(source.data, where))]
    /\ UNCHANGED outsideSource

\* One evaluation of the while condition, with the loop body when it holds.
Extract ==
    /\ source.phase = "extracting"
    /\ Len(source.breadcrumbs) < MaxPath
    /\ source' =
          IF ~TruthyNode(source.startFromNode)
          THEN Answered(source, TRUE, source.breadcrumbs)
          ELSE IF getParent(source.data, source.startFromNode).threw
          THEN [source EXCEPT !.phase = "rejected"]
          ELSE IF getParent(source.data, source.startFromNode).node = Null
          THEN Answered(source, TRUE, source.breadcrumbs)
          ELSE [source EXCEPT
                  !.breadcrumbs = AddFirst(@, getParent(source.data, source.startFromNode).node),
                  !.startFromNode = AsKey(getParent(source.data, source.startFromNode).node)]
    /\ UNCHANGED outsideSource

NextSource ==
    \/ \E where \in Keys \cup {MaxKey + 1, Undefined} : Query(where)
    \/ Extract

SpecSource == InitSource /\ [][NextSource]_vars

\* ------------------------------------------------- a cancelable promise
InitPromise ==
    /\ FormatsInit
    /\ instance = NewInstance([k \in ClassKeys |-> "method"])
    /\ answer = NoAnswer
    /\ source = HierarchicalMemory([k \in {1} |-> Null], TRUE)
    /\ \E origin \in Origins : promise = CancelablePromise(origin)
    /\ engine = Engine(Undefined)
    /\ reader = NoReader
    /\ strategy = NoStrategy

\* The original promise resolves or rejects.
OriginSettles ==
    /\ promise.origin.state = "pending"
    /\ \E origin \in Origins \ {PendingOrigin} : promise' = [promise EXCEPT !.origin = origin]
    /\ UNCHANGED outsidePromise

\* The caller cancels, at any time and any number of times.
Cancel ==
    /\ \E reason \in Reasons : promise' = cancel(promise, reason)
    /\ UNCHANGED outsidePromise

\* The job the settled origin queued for the chain runs.
Deliver ==
    /\ promise.origin.state # "pending"
    /\ promise.chained = "pending"
    /\ promise' = Settle(promise)
    /\ UNCHANGED outsidePromise

NextPromise == OriginSettles \/ Cancel \/ Deliver

SpecPromise == InitPromise /\ [][NextPromise]_vars

\* ------------------------------------------------- one engine, step by step
\* A new engine on the root of any payload.
InitEngine ==
    /\ \E p \in CorePayloads : InitOn(p)
    /\ instance = NewInstance([k \in ClassKeys |-> "method"])
    /\ answer = NoAnswer
    /\ source = HierarchicalMemory([k \in {1} |-> Null], TRUE)
    /\ promise = CancelablePromise(PendingOrigin)
    /\ engine = Engine(Root)
    /\ reader = NoReader
    /\ strategy = NoStrategy

\* engine.next(storage, id) is called, with any id or none
Advance(id) ==
    /\ ~engine.busy
    /\ engine' = Called(engine, id)
    /\ UNCHANGED <<heap, env>>
    /\ UNCHANGED outsideEngine

\* next() tests the stack and calls _process, or returns done
TurnOfNext ==
    /\ engine.busy
    /\ engine.frames = <<>>
    /\ engine' = Turn(engine)
    /\ UNCHANGED <<heap, env>>
    /\ UNCHANGED outsideEngine

\* _process goes one step on
Process ==
    /\ engine.busy
    /\ engine.frames # <<>>
    /\ engine' = ProcessStep(heap, env, engine)
    /\ UNCHANGED <<heap, env>>
    /\ UNCHANGED outsideEngine

NextEngine ==
    \/ \E id \in LookupIds \cup {Undefined} : Advance(id)
    \/ TurnOfNext
    \/ Process

SpecEngine == InitEngine /\ [][NextEngine]_vars

\* Every call of next() goes on until it returns: the engine runs in one thread that
\* nothing holds up.
SpecEngineFair == SpecEngine /\ WF_vars(TurnOfNext \/ Process)

\* --------------------------------------------------------- IteratorArray alone
\* The arrays an IteratorArray is constructed on: up to MaxLen elements, each an
\* object, null or undefined.
Arrays == UNION {[1..n -> {Prim, Null, Undefined}] : n \in 0..MaxLen}

InitReader ==
    /\ FormatsInit
    /\ instance = NewInstance([k \in ClassKeys |-> "method"])
    /\ answer = NoAnswer
    /\ source = HierarchicalMemory([k \in {1} |-> Null], TRUE)
    /\ promise = CancelablePromise(PendingOrigin)
    /\ engine = Engine(Undefined)
    /\ \E data \in Arrays : reader = Reader(data)
    /\ strategy = NoStrategy

\* iterator.next() is called once more
ReadNext ==
    /\ Len(reader.results) < MaxCalls
    /\ reader' = Read(reader)
    /\ UNCHANGED outsideReader

NextReader == ReadNext

SpecReader == InitReader /\ [][NextReader]_vars

\* ------------------------------------------------------ a Group strategy
InitStrategy ==
    /\ FormatsInit
    /\ instance = NewInstance([k \in ClassKeys |-> "method"])
    /\ answer = NoAnswer
    /\ source = HierarchicalMemory([k \in {1} |-> Null], TRUE)
    /\ promise = CancelablePromise(PendingOrigin)
    /\ engine = Engine(Undefined)
    /\ reader = NoReader
    /\ \E list \in ItemLists, handler \in Handlers : strategy = Group(list, handler)

\* A read is followed as long as the groups it gathers stay within MaxGroups.
Readable == Len(_getItemsOrder(strategy)._groups) <= MaxGroups

Count ==
    /\ Readable
    /\ strategy' = count(strategy)
    /\ UNCHANGED outsideStrategy

Items ==
    /\ Readable
    /\ strategy' = itemsOfStrategy(strategy)
    /\ UNCHANGED outsideStrategy

At(index) ==
    /\ Readable
    /\ strategy' = at(strategy, index)
    /\ UNCHANGED outsideStrategy

Splice(start, deleteCount, added) ==
    /\ start + deleteCount <= Len(strategy.source.items)
    /\ Len(strategy.source.items) - deleteCount + Len(added) <= MaxItems
    /\ strategy' = splice(strategy, start, deleteCount, added)
    /\ UNCHANGED outsideStrategy

Reset ==
    /\ strategy' = reset(strategy)
    /\ UNCHANGED outsideStrategy

Invalidate ==
    /\ strategy' = invalidate(strategy)
    /\ UNCHANGED outsideStrategy

SetHandler(value) ==
    /\ strategy' = SetHandlerTo(strategy, value)
    /\ UNCHANGED outsideStrategy

NextStrategy ==
    \/ Count
    \/ Items
    \/ \E index \in -1..(MaxItems + MaxGroups) : At(index)
    \/ \E start \in 0..MaxItems, deleteCount \in 0..1,
          added \in {<<>>} \cup {<<c>> : c \in Contents} : Splice(start, deleteCount, added)
    \/ Reset
    \/ Invalidate
    \/ \E value \in Handlers : SetHandler(value)

SpecStrategy == InitStrategy /\ [][NextStrategy]_vars

\* ------------------------------------------------- vocabulary of the properties
\* Document order: a carrier before its nested data `d`, array elements left to
\* right.  DocumentOrder(h, v) lists the objects reachable from v through arrays and
\* `d` fields in that order.
RECURSIVE DocumentOrder(_, _)
RECURSIVE DocumentOrderOfItems(_, _, _)
DocumentOrderOfItems(h, items, i) ==
    IF i > Len(items) THEN <<>>
    ELSE DocumentOrder(h, items[i]) \o DocumentOrderOfItems(h, items, i + 1)

DocumentOrder(h, v) ==
    IF ~IsRef(v) THEN <<>>
    ELSE IF h[v].kind = "arr" THEN DocumentOrderOfItems(h, h[v].items, 1)
    ELSE <<v>> \o DocumentOrder(h, h[v].d)

Carriers(h, root) == {DocumentOrder(h, root)[i] : i \in 1..Len(DocumentOrder(h, root))}

\* The carrier n declares id N inline.
Declares(h, n, N) == h[n].f = N /\ h[n].s # Undefined

DeclaredIds(h, root) ==
    {h[n].f : n \in {m \in Carriers(h, root) : h[m].f # Undefined /\ h[m].s # Undefined}}

\* The place in document order of the first carrier declaring N, that carrier and its
\* structure (N being declared).
FirstPlace(h, root, N) ==
    CHOOSE i \in 1..Len(DocumentOrder(h, root)) :
        /\ Declares(h, DocumentOrder(h, root)[i], N)
        /\ \A j \in 1..(i - 1) : ~Declares(h, DocumentOrder(h, root)[j], N)

FirstCarrier(h, root, N) == DocumentOrder(h, root)[FirstPlace(h, root, N)]
FirstDeclaration(h, root, N) == h[FirstCarrier(h, root, N)].s

\* N is declared by several carriers with different structures.
DeclaredDifferently(h, root, N) ==
    \E n \in Carriers(h, root), m \in Carriers(h, root) :
        Declares(h, n, N) /\ Declares(h, m, N) /\ lists[h[n].s] # lists[h[m].s]

\* getFormat(N, copy) called in the current state, and the same call made next after
\* a call that left r.
Get(N, copy) == getFormat(heap, env, lists, controller, N, copy)
GetAfter(r, N, copy) == getFormat(heap, env, r.lists, r.c, N, copy)

\* The ids that reached the cache otherwise than by a traversal of the bound payload.
Planted == seeded \cup foreign

\* --------------------------------------------------------------- properties

\* C1 as stated: for every id N that a carrier reachable from the root declares inline
\* and that setOriginal did not seed, getFormat(N) returns the declared structure (the
\* first declaration's), and a second getFormat(N) is answered from the cache with the
\* same list and leaves the cache as it is.
C1_Stated ==
    \A N \in LookupIds :
        (N \in DeclaredIds(heap, Root) /\ N \notin seeded) =>
            LET r == Get(N, FALSE)
                again == GetAfter(r, N, FALSE)
            IN  /\ ~r.threw
                /\ r.value = FirstDeclaration(heap, Root, N)
                /\ ~again.threw /\ again.hit
                /\ again.lists[again.value] = r.lists[r.value]
                /\ again.c._cache = r.c._cache

\* C1 amended: the same for every declared id N that neither setOriginal seeded nor a
\* scanFormats of other data put into the cache.
C1_DeclaredIdIsFound ==
    \A N \in LookupIds :
        (N \in DeclaredIds(heap, Root) /\ N \notin Planted) =>
            LET r == Get(N, FALSE)
                again == GetAfter(r, N, FALSE)
            IN  /\ ~r.threw
                /\ r.value = FirstDeclaration(heap, Root, N)
                /\ lists[r.value] = r.lists[r.value]
                /\ ~again.threw /\ again.hit
                /\ again.value = r.value
                /\ again.lists[again.value] = r.lists[r.value]
                /\ again.c._cache = r.c._cache

\* C1 witness: a lookup has traversed the payload and left a declared, unplanted id in
\* the cache with its declared structure.
C1_Witness ==
    /\ started /\ scanned = {}
    /\ \E N \in DeclaredIds(heap, Root) :
          /\ N \notin Planted
          /\ N \in DOMAIN controller._cache
          /\ controller._cache[N] = FirstDeclaration(heap, Root, N)

\* No call of getFormat or scanFormats changes an entry the cache already holds.
EntriesStay ==
    /\ \A id \in LookupIds, N \in DOMAIN controller._cache :
          /\ N \in DOMAIN Get(id, FALSE).c._cache
          /\ Get(id, FALSE).c._cache[N] = controller._cache[N]
    /\ \A data \in {Root, Other(heap)}, N \in DOMAIN controller._cache :
          /\ N \in DOMAIN scanFormats(heap, env, controller, data).c._cache
          /\ scanFormats(heap, env, controller, data).c._cache[N] = controller._cache[N]

\* C2 as stated: when several carriers declare N with different structures,
\* getFormat(N) returns the structure of the first of them in document order, the
\* cache holds that structure for N whenever it holds N, and no later declaration
\* overwrites an entry.
C2_Stated ==
    /\ \A N \in LookupIds :
          DeclaredDifferently(heap, Root, N) =>
              /\ ~Get(N, FALSE).threw
              /\ Get(N, FALSE).value = FirstDeclaration(heap, Root, N)
              /\ Get(N, FALSE).c._cache[N] = FirstDeclaration(heap, Root, N)
              /\ N \in DOMAIN controller._cache =>
                    controller._cache[N] = FirstDeclaration(heap, Root, N)
    /\ EntriesStay

\* C2 amended: the same for every N that neither setOriginal nor a scanFormats of other
\* data put into the cache; an entry put there by them stays too.
C2_FirstDeclarationWins ==
    /\ \A N \in LookupIds :
          (DeclaredDifferently(heap, Root, N) /\ N \notin Planted) =>
              /\ ~Get(N, FALSE).threw
              /\ Get(N, FALSE).value = FirstDeclaration(heap, Root, N)
              /\ Get(N, FALSE).c._cache[N] = FirstDeclaration(heap, Root, N)
              /\ N \in DOMAIN controller._cache =>
                    controller._cache[N] = FirstDeclaration(heap, Root, N)
    /\ EntriesStay

\* C2 witness: N is declared twice with different structures, a traversal has gone
\* past the second declaration (it cached an id first declared after it), and the
\* cache holds the first declaration for N.
C2_Witness ==
    /\ started /\ scanned = {} /\ Planted = {}
    /\ \E N \in DOMAIN controller._cache, M \in DOMAIN controller._cache :
          /\ DeclaredDifferently(heap, Root, N)
          /\ controller._cache[N] = FirstDeclaration(heap, Root, N)
          /\ M \in DeclaredIds(heap, Root)
          /\ \E i \in 1..Len(DocumentOrder(heap, Root)) :
                /\ Declares(heap, DocumentOrder(heap, Root)[i], N)
                /\ heap[DocumentOrder(heap, Root)[i]].s # controller._cache[N]
                /\ i < FirstPlace(heap, Root, M)

\* C3 as stated: getFormat(N) throws for every id N that no carrier of the bound
\* payload declares inline and that setOriginal never seeded, whatever lookups came
\* before.
C3_Stated ==
    \A N \in LookupIds :
        (N \notin DeclaredIds(heap, Root) /\ N \notin seeded) => Get(N, FALSE).threw

\* C3 amended: getFormat(N) throws, and returns nothing, for every id N that no carrier
\* of the bound payload declares inline and that the cache does not hold.
C3_AbsentIdThrows ==
    \A N \in LookupIds, copy \in BOOLEAN :
        (N \notin DeclaredIds(heap, Root) /\ N \notin DOMAIN controller._cache) =>
            /\ Get(N, copy).threw
            /\ Get(N, copy).value = Undefined

\* C3 witness: lookups have succeeded (every declared id is cached, by traversal) and
\* an id that is neither declared nor cached is left to ask for.
C3_Witness ==
    /\ started /\ scanned = {} /\ Planted = {}
    /\ DeclaredIds(heap, Root) # {}
    /\ DeclaredIds(heap, Root) \subseteq DOMAIN controller._cache
    /\ \E N \in LookupIds :
          N \notin DeclaredIds(heap, Root) /\ N \notin DOMAIN controller._cache

\* C4 as stated: the controller constructs its traversal engine at most once; once a
\* getFormat has constructed one, a later cache miss constructs no other.
C4_EngineCreatedOnce ==
    \A N \in LookupIds :
        (started /\ N \notin DOMAIN controller._cache) => ~Get(N, FALSE).created

\* C5: with nothing but lookups made on the controller, getFormat(B) gives what
\* getFormat(B) gives as the first call on a new controller bound to the same
\* payload: the same list, or a throw in both.
C5_LookupsDoNotInterfere ==
    \A B \in LookupIds, copy \in BOOLEAN :
        LET r == Get(B, copy)
            first == getFormat(heap, env, lists, SbisFormatController(Root), B, copy)
        IN  /\ r.threw = first.threw
            /\ ~r.threw => r.lists[r.value] = first.lists[first.value]
            /\ (~r.threw /\ ~copy) => r.value = first.value

\* C5 witness: getFormat(A) has run, and B, first declared later in document order
\* than A, has not been looked up yet.
C5_Witness ==
    /\ started
    /\ \E A \in DeclaredIds(heap, Root), B \in DeclaredIds(heap, Root) :
          /\ A \in DOMAIN controller._cache
          /\ B \notin DOMAIN controller._cache
          /\ FirstPlace(heap, Root, A) < FirstPlace(heap, Root, B)

\* C6: when recoverData(P) returns, no carrier of P has `f`; a carrier that had `f`
\* and no `s` has the structure getFormat(f) returned on the controller used, which
\* without a controller passed is the first declaration of f in P; a carrier that had
\* `s` keeps it; nothing else of P changes and P is what is returned.
C6_RecoverData ==
    \A P \in {Root, Other(heap)}, given \in BOOLEAN :
        LET r == recoverData(heap, env, lists, controller, P, given)
            used == IF given THEN controller ELSE SbisFormatController(P)
        IN  ~r.threw =>
                /\ r.value = P
                /\ \A n \in Carriers(r.h, P) : r.h[n].f = Undefined
                /\ Carriers(r.h, P) = Carriers(heap, P)
                /\ \A n \in DOMAIN heap :
                      /\ r.h[n].kind = heap[n].kind
                      /\ r.h[n].items = heap[n].items
                      /\ r.h[n].d = heap[n].d
                      /\ n \notin Carriers(heap, P) => r.h[n] = heap[n]
                /\ \A n \in Carriers(heap, P) :
                      /\ heap[n].s # Undefined => r.h[n].s = heap[n].s
                      /\ (heap[n].s = Undefined /\ heap[n].f # Undefined) =>
                            /\ r.h[n].s = getFormat(heap, env, lists, used, heap[n].f, FALSE).value
                            /\ ~given => r.h[n].s = FirstDeclaration(heap, P, heap[n].f)
                      /\ (heap[n].s = Undefined /\ heap[n].f = Undefined) =>
                            r.h[n].s = Undefined

\* C6 witness: recoverData has returned on the bound payload: its carriers have lost
\* their ids, and one that only referred to an id shares the declaring carrier's list.
C6_Witness ==
    /\ \A n \in Carriers(heap, Root) : heap[n].f = Undefined
    /\ \E n \in Carriers(heap, Root), m \in Carriers(heap, Root) :
          n < m /\ heap[n].s # Undefined /\ heap[m].s = heap[n].s

\* C7: once scanFormats(P) has run, getFormat(N) for every id N declared inline in P is
\* answered from the cache: it does not throw, constructs no engine and leaves the
\* controller as it is.
C7_ScannedIdsAreCached ==
    \A P \in scanned, N \in LookupIds, copy \in BOOLEAN :
        N \in DeclaredIds(heap, P) =>
            /\ N \in DOMAIN controller._cache
            /\ Get(N, copy).hit
            /\ ~Get(N, copy).threw
            /\ ~Get(N, copy).created
            /\ Get(N, copy).c = controller

\* C7 witness: scanFormats has run on data that declares ids, before any lookup.
C7_Witness ==
    /\ ~started /\ seeded = {}
    /\ \E P \in scanned : DeclaredIds(heap, P) # {}

\* What a list the caller got as a copy does not touch when the caller changes it:
\* the cache entry, and the list a getFormat(N, false) returns.
CopyChangedAlone ==
    (held.copy /\ held.ref # Undefined /\ ~held.changed /\ held'.changed) =>
        /\ controller'._cache = controller._cache
        /\ lists'[controller'._cache[held.id]] = lists[controller._cache[held.id]]
        /\ LET before == getFormat(heap, env, lists, controller, held.id, FALSE)
               after == getFormat(heap', env', lists', controller', held.id, FALSE)
           IN  /\ after.threw = before.threw
               /\ after.value = before.value
               /\ after.lists[after.value] = before.lists[before.value]

\* C8: getFormat(N, true) returns a list with the content of the cache entry that is
\* no list the cache, the payload or the caller already holds, on a hit and on a
\* traversal; and the caller adding to, removing from or replacing in a list it got
\* that way changes neither the cache entry nor what getFormat(N, false) returns.
C8_CopyIsIndependent ==
    /\ [](\A N \in LookupIds :
             LET r == Get(N, TRUE)
             IN  ~r.threw =>
                    /\ r.value \notin DOMAIN lists
                    /\ r.value # r.c._cache[N]
                    /\ r.lists[r.value] = r.lists[r.c._cache[N]]
                    /\ r.c._cache[N] = Get(N, FALSE).value)
    /\ [](held.copy /\ held.ref # Undefined =>
             /\ held.id \in DOMAIN controller._cache
             /\ held.ref # controller._cache[held.id]
             /\ ~held.changed => lists[held.ref] = lists[controller._cache[held.id]])
    /\ [][CopyChangedAlone]_vars

\* C8 witness: the caller holds a copy that a traversing getFormat(N, true) returned,
\* has changed it, and it now differs from the cache entry.
C8_Witness ==
    /\ held.copy /\ ~held.hit /\ held.changed
    /\ held.id \in DOMAIN controller._cache
    /\ lists[held.ref] # lists[controller._cache[held.id]]

\* The payload of the scenario: [{f: 1, s: [{n: 'id'}], d: [{f: 2, s: [{n: 'x'}]}, {f: 1}]}]
ScenarioPayload ==
    TableShape([f |-> 1, s |-> TRUE], [f |-> 2, s |-> TRUE], [f |-> 1, s |-> FALSE])

\* C9: on a new controller bound to the scenario's payload getFormat(1) returns
\* [{n: 'id'}], then getFormat(2) returns [{n: 'x'}], then getFormat(3) throws.
C9_Scenario ==
    (SubSeq(heap, 1, Len(ScenarioPayload)) = ScenarioPayload /\ controller = SbisFormatController(Root)) =>
        LET r1 == Get(1, FALSE)
            r2 == GetAfter(r1, 2, FALSE)
            r3 == GetAfter(r2, 3, FALSE)
        IN  /\ ~r1.threw /\ r1.lists[r1.value] = <<[n |-> "id"]>>
            /\ ~r2.threw /\ r2.lists[r2.value] = <<[n |-> "x"]>>
            /\ r3.threw

\* C9 witness: the scenario's payload after getFormat(1) and getFormat(2): the cache
\* holds the two structures, put there by lookups alone.
C9_Witness ==
    /\ SubSeq(heap, 1, Len(ScenarioPayload)) = ScenarioPayload
    /\ started /\ scanned = {} /\ Planted = {}
    /\ DOMAIN controller._cache = {1, 2}
    /\ lists[controller._cache[1]] = <<[n |-> "id"]>>
    /\ lists[controller._cache[2]] = <<[n |-> "x"]>>
    /\ Get(3, FALSE).threw

\* C10 as stated: when getFormat(N) succeeds by traversal, the cache then holds every
\* id first declared before N's first declaration, mapped to its first declaration,
\* and a getFormat of any of them is a cache hit that constructs no engine.
C10_Stated ==
    \A N \in LookupIds :
        LET r == Get(N, FALSE)
        IN  (~r.threw /\ ~r.hit) =>
                \A M \in DeclaredIds(heap, Root) :
                    FirstPlace(heap, Root, M) < FirstPlace(heap, Root, N) =>
                        /\ M \in DOMAIN r.c._cache
                        /\ r.c._cache[M] = FirstDeclaration(heap, Root, M)
                        /\ GetAfter(r, M, FALSE).hit
                        /\ ~GetAfter(r, M, FALSE).created

\* C10 amended: the same, an id that setOriginal or a scanFormats of other data put
\* into the cache keeping the entry it has.
C10_VisitedIdsAreCached ==
    \A N \in LookupIds :
        LET r == Get(N, FALSE)
        IN  (~r.threw /\ ~r.hit) =>
                /\ N \in DeclaredIds(heap, Root)
                /\ r.value = FirstDeclaration(heap, Root, N)
                /\ \A M \in DeclaredIds(heap, Root) :
                      FirstPlace(heap, Root, M) < FirstPlace(heap, Root, N) =>
                          /\ M \in DOMAIN r.c._cache
                          /\ M \notin Planted =>
                                r.c._cache[M] = FirstDeclaration(heap, Root, M)
                          /\ M \in Planted => r.c._cache[M] = controller._cache[M]
                          /\ GetAfter(r, M, FALSE).hit
                          /\ ~GetAfter(r, M, FALSE).threw
                          /\ ~GetAfter(r, M, FALSE).created
                          /\ GetAfter(r, M, FALSE).c = r.c

\* C10 witness: lookups alone have left in the cache an id N and an id M first
\* declared before N, each with its first declaration.
C10_Witness ==
    /\ started /\ Planted = {} /\ scanned = {}
    /\ \E N \in DeclaredIds(heap, Root), M \in DeclaredIds(heap, Root) :
          /\ FirstPlace(heap, Root, M) < FirstPlace(heap, Root, N)
          /\ M \in DOMAIN controller._cache /\ N \in DOMAIN controller._cache
          /\ controller._cache[M] = FirstDeclaration(heap, Root, M)
          /\ controller._cache[N] = FirstDeclaration(heap, Root, N)

\* C11: a getFormat(N) that succeeds by traversal adds to the cache, besides N, only
\* ids first declared before N's first declaration in document order: none that is
\* first declared after it.
C11_TraversalStopsAtTarget ==
    \A N \in LookupIds :
        LET r == Get(N, FALSE)
        IN  (~r.threw /\ ~r.hit) =>
                /\ N \in DeclaredIds(heap, Root)
                /\ \A M \in (DOMAIN r.c._cache) \ (DOMAIN controller._cache) :
                      /\ M \in DeclaredIds(heap, Root)
                      /\ FirstPlace(heap, Root, M) <= FirstPlace(heap, Root, N)
                      /\ M # N => FirstPlace(heap, Root, M) < FirstPlace(heap, Root, N)

\* C11 witness: lookups alone have cached N while an id first declared after N's first
\* declaration is still not in the cache.
C11_Witness ==
    /\ started /\ scanned = {} /\ Planted = {}
    /\ \E N \in DeclaredIds(heap, Root), K \in DeclaredIds(heap, Root) :
          /\ N \in DOMAIN controller._cache
          /\ K \notin DOMAIN controller._cache
          /\ FirstPlace(heap, Root, N) < FirstPlace(heap, Root, K)

\* What a step may do to the cache: every id stays, and an id's entry changes only by
\* a setOriginal for that id, which leaves it a new list with the content of the
\* caller's list and touches nothing else.
CacheStep ==
    \A N \in DOMAIN controller._cache :
        /\ N \in DOMAIN controller'._cache
        /\ controller'._cache[N] = controller._cache[N] =>
              lists'[controller'._cache[N]] = lists[controller._cache[N]]
        /\ controller'._cache[N] # controller._cache[N] =>
              /\ N \in seeded'
              /\ controller'._cache[N] \notin DOMAIN lists
              /\ lists'[controller'._cache[N]] = lists[CallerList(heap)]
              /\ \A M \in (DOMAIN controller._cache) \ {N} :
                    controller'._cache[M] = controller._cache[M]
              /\ DOMAIN controller'._cache = DOMAIN controller._cache
              /\ UNCHANGED <<heap, scanned, started, foreign>>

\* C12: over any sequence of getFormat, scanFormats, setOriginal and recoverData calls
\* the cache never loses an id, and the list stored for an id changes only through
\* setOriginal for that id; a traversal or scanFormats overwrites no entry, a seeded
\* one included.
C12_CacheOnlyGrows == [][CacheStep]_vars

\* C12 witness: setOriginal seeded an id the payload declares, scanFormats then ran
\* over the whole payload, a lookup traversed it too, and the seeded entry is there.
C12_Witness ==
    /\ Root \in scanned /\ started
    /\ \E N \in seeded :
          /\ N \in DeclaredIds(heap, Root)
          /\ N \in DOMAIN controller._cache
          /\ controller._cache[N] # FirstDeclaration(heap, Root, N)
          /\ lists[controller._cache[N]] = <<FieldOfCaller>>

\* Right after setOriginal(id, fields), getFormat(id) is a cache hit that constructs no
\* engine and returns a list other than `fields` with the content `fields` has, and
\* goes on returning that content when the caller then changes `fields`.
SeedIsReturned ==
    \A id \in LookupIds :
        LET fields == CallerList(heap)
            seed == setOriginal(lists, controller, id, fields)
            r == getFormat(heap, env, seed.lists, seed.c, id, FALSE)
        IN  /\ r.hit /\ ~r.threw /\ ~r.created
            /\ r.value # fields
            /\ r.lists[r.value] = lists[fields]
            /\ \A change \in Changes :
                  LET later == getFormat(heap, env,
                                         [seed.lists EXCEPT ![fields] = ChangedList(@, change)],
                                         seed.c, id, FALSE)
                  IN  /\ later.hit /\ ~later.threw /\ ~later.created
                      /\ later.value = r.value
                      /\ later.lists[later.value] = lists[fields]

\* A step in which the caller's list changes changes no getFormat result.
FieldsChangedAlone ==
    lists'[CallerList(heap)] # lists[CallerList(heap)] =>
        /\ controller' = controller
        /\ \A id \in DOMAIN controller._cache :
              /\ controller._cache[id] # CallerList(heap)
              /\ lists'[controller'._cache[id]] = lists[controller._cache[id]]
              /\ getFormat(heap', env', lists', controller', id, FALSE).value
                    = getFormat(heap, env, lists, controller, id, FALSE).value

\* C13: after setOriginal(id, fields) getFormat(id) returns, with no traversal, a list
\* with the content `fields` had at the call, whatever the payload declares for id;
\* the caller adding to, removing from or replacing in `fields` afterwards changes
\* nothing of what getFormat(id) returns.
C13_SeedIsDefensiveCopy == []SeedIsReturned /\ [][FieldsChangedAlone]_vars

\* C13 witness: an id the payload declares was seeded, the caller then changed its
\* list, and the cache still holds the content the list had when it was passed.
C13_Witness ==
    /\ held.changes > 0
    /\ lists[CallerList(heap)] # <<FieldOfCaller>>
    /\ \E id \in seeded :
          /\ id \in DeclaredIds(heap, Root)
          /\ lists[controller._cache[id]] = <<FieldOfCaller>>
          /\ Get(id, FALSE).hit
          /\ Get(id, FALSE).lists[Get(id, FALSE).value] = <<FieldOfCaller>>

\* The carrier n lacks `f`, `s` or both.
Malformed(h, n) == h[n].f = Undefined \/ h[n].s = Undefined

\* C14: on a payload with carriers that lack `f`, `s` or both, a traversal (by
\* getFormat or scanFormats) adds to the cache only ids declared with both, never a
\* key for such a carrier; it throws only when the id asked for is neither declared
\* nor cached; and it goes past such carriers into their `d` and on to their
\* siblings: every declared id is found at its first declaration, and a traversal
\* that runs to the end has cached every declared id.
C14_MalformedCarriersAreSkipped ==
    (\E n \in Carriers(heap, Root) : Malformed(heap, n)) =>
        /\ \A N \in LookupIds :
              LET r == Get(N, FALSE)
              IN  /\ (DOMAIN r.c._cache) \subseteq (DOMAIN controller._cache) \cup DeclaredIds(heap, Root)
                  /\ Undefined \notin DOMAIN r.c._cache
                  /\ \A M \in DOMAIN r.c._cache : r.c._cache[M] # Undefined
                  /\ r.threw <=> (N \notin DeclaredIds(heap, Root) /\ N \notin DOMAIN controller._cache)
                  /\ r.threw => DOMAIN r.c._cache = (DOMAIN controller._cache) \cup DeclaredIds(heap, Root)
                  /\ (N \in DeclaredIds(heap, Root) /\ N \notin DOMAIN controller._cache) =>
                        r.value = FirstDeclaration(heap, Root, N)
        /\ LET scan == scanFormats(heap, env, controller, Root)
           IN  /\ scan.done
               /\ DOMAIN scan.c._cache = (DOMAIN controller._cache) \cup DeclaredIds(heap, Root)
               /\ \A M \in DeclaredIds(heap, Root) \ DOMAIN controller._cache :
                     scan.c._cache[M] = FirstDeclaration(heap, Root, M)

\* C14 witness: a lookup has gone through a carrier with `d` that lacks `f` or `s`, and
\* past a carrier without `f` and `s`, to cache an id first declared after them.
C14_Witness ==
    /\ started
    /\ \E i \in 1..Len(DocumentOrder(heap, Root)), j \in 1..Len(DocumentOrder(heap, Root)),
          M \in DOMAIN controller._cache :
          /\ Malformed(heap, DocumentOrder(heap, Root)[i])
          /\ IsRef(heap[DocumentOrder(heap, Root)[i]].d)
          /\ heap[DocumentOrder(heap, Root)[j]].f = Undefined
          /\ heap[DocumentOrder(heap, Root)[j]].s = Undefined
          /\ M \in DeclaredIds(heap, Root)
          /\ i < FirstPlace(heap, Root, M)
          /\ j < FirstPlace(heap, Root, M)
          /\ controller._cache[M] = FirstDeclaration(heap, Root, M)

\* On a destroyed instance every function of the class other than destroy and
\* isDestroyed throws ReferenceError when called, destroy() and isDestroyed() do not;
\* on a live one no call throws ReferenceError.
DeadOnceDestroyed ==
    /\ \A k \in ClassKeys :
          TypeofFunction(instance.members[k]) =>
              (Invoke(instance, k).threw = "ReferenceError" <=> destroyed(instance))
    /\ Invoke(instance, "destroy").threw = ""
    /\ destroyed(Invoke(instance, "destroy").i)
    /\ Invoke(instance, "isDestroyed").threw = ""
    /\ Invoke(instance, "isDestroyed").value = destroyed(instance)
    /\ (answer.key \in ClassKeys /\ answer.threw # "TypeError") =>
          (answer.threw = "ReferenceError" <=> ~answer.lived)
    /\ answer.key \in MixinKeys => answer.threw = ""
    /\ answer.key = "" => ~destroyed(instance)
    /\ answer.key \in {"destroyed", "isDestroyed"} => answer.value = destroyed(instance)

\* `destroyed` turns true by a call of destroy() only, every call of destroy() leaves
\* it true, and it never turns false again.
DestroyedStep ==
    /\ destroyed(instance) => destroyed(instance')
    /\ (destroyed(instance') /\ ~destroyed(instance)) => answer'.key = "destroy"
    /\ answer'.key = "destroy" => (destroyed(instance') /\ answer'.threw = "")

RECURSIVE ChainUp(_, _, _)
ChainUp(data, key, steps) ==
    IF steps = 0 \/ key \notin DOMAIN data THEN <<>>
    ELSE IF data[key] = Null THEN <<key>>
    ELSE Append(ChainUp(data, data[key], steps - 1), key)

\* The parent chain of `key` is acyclic and leads to a root: it reaches a record
\* without parent through records of the data, passing none twice.
LeadsToRoot(data, key) ==
    /\ key \in DOMAIN data
    /\ LET chain == ChainUp(data, key, MaxKey + 1)
       IN  /\ chain # <<>>
           /\ chain[1] \in DOMAIN data
           /\ data[chain[1]] = Null
           /\ chain[Len(chain)] = key

\* C16 as stated: with a parent property set and the where clause giving it the key of
\* an existing record whose parent chain is acyclic and leads to a root, query()
\* rejects nothing and stores under meta.path the records from the root down to that
\* record.
C16_PathReachesRoot ==
    (/\ source.parentProperty
     /\ source.phase \in {"resolved", "rejected"}
     /\ source.where \in DOMAIN source.data
     /\ LeadsToRoot(source.data, source.where)) =>
        /\ source.phase = "resolved"
        /\ source.stored
        /\ source.path = ChainUp(source.data, source.where, MaxKey + 1)

\* C17 as stated: once cancel() has been called, a settled promise is one rejected
\* with PromiseCanceledError.
C17_Stated ==
    (promise._canceled # "false" /\ promise.promise.state # "pending") =>
        /\ promise.promise.state = "rejected"
        /\ promise.promise.with.name = "PromiseCanceledError"
        /\ promise.promise.with.isCanceled

\* The promise settles with the error of the cancellation in force, or with the
\* outcome of the original when there is none.
SettlesAsCancelled ==
    (promise.promise.state = "pending" /\ promise'.promise.state # "pending") =>
        IF promise._canceled # "false"
        THEN /\ promise'.promise.state = "rejected"
             /\ promise'.promise.with.name = "PromiseCanceledError"
             /\ promise'.promise.with.isCanceled
             /\ promise._canceled # NoReason => promise'.promise.with.message = promise._canceled
        ELSE /\ promise'.promise.state = promise.origin.state
             /\ promise'.promise.with = Plain(promise.origin.with)

\* A settled promise keeps its outcome, whatever cancel() is called afterwards.
SettledStays ==
    promise.promise.state # "pending" => promise'.promise = promise.promise

\* C17: when cancel() has been called before the outcome of the original promise is
\* delivered, the promise rejects with PromiseCanceledError (isCanceled true, message
\* equal to the reason when one was passed) whether the original resolved or rejected;
\* with no cancel() before that, it settles with the original's value or rejection
\* reason, and a cancel() after it has settled leaves it as it is.
C17_CancelBeforeDelivery ==
    [][SettlesAsCancelled /\ SettledStays]_vars

\* the promise of a resolved original, rejected because cancel() with a reason came
\* before the delivery
C17_Witness ==
    /\ promise._canceled = "Something wrong"
    /\ promise.origin.state = "resolved"
    /\ promise.promise.state = "rejected"
    /\ promise.promise.with.message = "Something wrong"

\* The wrapper nodes on the stack of the engine, the lowest first, and the payload
\* nodes they wrap.
StackKeys == DOMAIN engine.st._stack
OnStack == [k \in 0..engine.st.processableId |-> DataOf(engine, engine.st._stack[k])]

\* The keys of the stack are the depth indices 0..top and the current node is the
\* entry at the top, undefined on an empty stack.
StackIsContiguous ==
    /\ engine.st.processableId >= -1
    /\ StackKeys = 0..engine.st.processableId
    /\ currentNode(engine.st) =
          IF engine.st.processableId >= 0
          THEN engine.st._stack[engine.st.processableId] ELSE Undefined

\* A step that takes an entry from the stack finds one there and takes the top one.
PopsWhatIsThere ==
    engine'.st.processableId < engine.st.processableId =>
        /\ engine.st.processableId >= 0
        /\ engine'.st.processableId = engine.st.processableId - 1
        /\ DOMAIN engine'.st._stack = StackKeys \ {engine.st.processableId}

\* C18: in every state of a traversal engine, between any two operations on its stack
\* as well as between calls, the keys of the stack are exactly the depth indices 0..top
\* with top = processableId >= -1, the current node is the entry at top when top >= 0
\* and undefined when top = -1, and pop is never performed on an empty stack.
C18_StackIsContiguous ==
    []StackIsContiguous /\ [][PopsWhatIsThere]_vars

\* the engine has pushed entries on entries, popped them and emptied its stack
C18_Witness ==
    /\ engine.done
    /\ engine.st.processableId = -1
    /\ engine.st._stack = <<>>
    /\ \E i \in 1..(Len(engine.log) - 2) :
          engine.log[i].op = "push" /\ engine.log[i + 1].op # "pop" /\ engine.log[i + 2].op = "pop"


\* What happened to the payload, in order: the events of one kind, and whether one of
\* them happened twice.
Events(op) == {i \in 1..Len(engine.log) : engine.log[i].op = op}
Twice(op) ==
    \E i \in Events(op), j \in Events(op) :
        i < j /\ engine.log[i].node = engine.log[j].node /\ engine.log[i].index = engine.log[j].index

\* A payload node (an object or an array) is pushed after it was popped.
PushedAgain ==
    \E i \in Events("pop"), j \in Events("push") :
        i < j /\ IsRef(engine.log[i].node) /\ engine.log[i].node = engine.log[j].node

Examined == {engine.log[i].node : i \in Events("examine")}

\* C19: across any sequence of advance calls on one engine, with any target ids, each
\* array element is pulled from its array at most once, the nested data `d` of each
\* object is pushed at most once, and a payload node that has been popped is never
\* pushed again; when the engine reports done, every carrier reachable through arrays
\* and `d` has been examined.
C19_NothingTwiceNothingLost ==
    /\ ~Twice("pull")
    /\ ~Twice("descend")
    /\ ~PushedAgain
    /\ (~engine.busy /\ engine.done) => Carriers(heap, Root) \subseteq Examined

\* an engine done after having yielded twice, the second time inside the `d` of a
\* carrier
C19_Witness ==
    /\ ~engine.busy
    /\ engine.done
    /\ Cardinality(Events("yield")) = 2
    /\ \E i \in Events("descend"), j \in Events("yield") : i < j
    /\ Cardinality(Carriers(heap, Root)) >= 3

\* The nodes from v down to the node `target` of the payload, <<>> when `target` is not
\* under v.
RECURSIVE PathTo(_, _, _)
RECURSIVE PathThroughItems(_, _, _, _)
PathThroughItems(h, items, i, target) ==
    IF i > Len(items) THEN <<>>
    ELSE IF PathTo(h, items[i], target) # <<>> THEN PathTo(h, items[i], target)
    ELSE PathThroughItems(h, items, i + 1, target)

PathTo(h, v, target) ==
    IF ~IsRef(v) THEN <<>>
    ELSE IF v = target THEN <<v>>
    ELSE IF h[v].kind = "arr"
    THEN (IF PathThroughItems(h, h[v].items, 1, target) = <<>> THEN <<>>
          ELSE <<v>> \o PathThroughItems(h, h[v].items, 1, target))
    ELSE IF PathTo(h, h[v].d, target) = <<>> THEN <<>> ELSE <<v>> \o PathTo(h, h[v].d, target)

\* What the engine is to push from v on, in order: v, then for an array its objects
\* left to right, each with what is under it, for a carrier its `d` with what is under
\* it.
RECURSIVE PushOrder(_, _)
RECURSIVE PushOrderOfItems(_, _, _)
PushOrderOfItems(h, items, i) ==
    IF i > Len(items) THEN <<>>
    ELSE (IF IsRef(items[i]) THEN PushOrder(h, items[i]) ELSE <<>>)
         \o PushOrderOfItems(h, items, i + 1)

PushOrder(h, v) ==
    IF ~IsRef(v) THEN <<v>>
    ELSE IF h[v].kind = "arr" THEN <<v>> \o PushOrderOfItems(h, h[v].items, 1)
    ELSE IF Truthy(h[v].d) THEN <<v>> \o PushOrder(h, h[v].d) ELSE <<v>>

\* The nodes pushed among the first n events, in order.
RECURSIVE PushesUpTo(_)
PushesUpTo(n) ==
    IF n = 0 THEN <<>>
    ELSE IF engine.log[n].op = "push" THEN Append(PushesUpTo(n - 1), engine.log[n].node)
    ELSE PushesUpTo(n - 1)

\* next() has just yielded a structure.
HasYielded == ~engine.busy /\ ~engine.done /\ engine.value # Undefined

\* On a yield the declaring carrier is the top of the stack, not completed and with its
\* `d` not pushed, on the chain of the nodes that enclose it.
YieldLeavesCarrierOnTop ==
    HasYielded =>
        LET w == currentNode(engine.st)
        IN  /\ engine.st.processableId >= 0
            /\ IsRef(DataOf(engine, w))
            /\ heap[DataOf(engine, w)].f = engine.id
            /\ heap[DataOf(engine, w)].s = engine.value
            /\ ~engine.st.nodes[w].completed
            /\ \A i \in Events("descend") : engine.log[i].node # DataOf(engine, w)
            /\ [k \in 1..(engine.st.processableId + 1) |-> OnStack[k - 1]]
                  = PathTo(heap, Root, DataOf(engine, w))

\* After a yield at a carrier, whatever the later calls ask for, the engine pushes what
\* follows that carrier in the payload: its `d`, then its following siblings.
ResumesAfterTheCarrier ==
    \A i \in Events("yield") :
        LET before == PushesUpTo(i)
            all == PushesUpTo(Len(engine.log))
        IN  /\ before # <<>>
            /\ before[Len(before)] = engine.log[i].node
            /\ Len(all) <= Len(PushOrder(heap, Root))
            /\ all = SubSeq(PushOrder(heap, Root), 1, Len(all))

\* C20: when advance yields the structure of the target id, the carrier that declared
\* it is still the top of the stack, is not marked completed and its `d` has not been
\* pushed, and the entries below it are the chain of enclosing arrays and carriers from
\* the root; the next advance call on that engine continues with that carrier's `d` and
\* then its following siblings.
C20_YieldKeepsThePlace ==
    YieldLeavesCarrierOnTop /\ ResumesAfterTheCarrier

\* a yield at a carrier with `d` under an array, and the engine resumed into that `d`
C20_Witness ==
    \E i \in Events("yield"), j \in Events("descend") :
        /\ i < j
        /\ engine.log[i].node = engine.log[j].node
        /\ engine.st.processableId >= 2
        /\ HasYielded

\* The step in which next() returns a structure.
YieldStep == engine.busy /\ ~engine'.busy /\ engine'.value # Undefined

\* The carrier on top of the stack after the step.
TopCarrier == DataOf(engine', currentNode(engine'.st))

\* A yield is for the id asked for, which the cache did not hold, at a carrier with
\* that id whose structure the step writes into the cache and returns.
YieldsTheTarget ==
    YieldStep =>
        /\ engine.id # Undefined
        /\ engine.id \notin DOMAIN engine.storage
        /\ IsRef(TopCarrier)
        /\ heap[TopCarrier].f = engine.id
        /\ heap[TopCarrier].s # Undefined
        /\ engine'.storage = MapSet(engine.storage, engine.id, heap[TopCarrier].s)
        /\ engine'.value = heap[TopCarrier].s

\* C21: advance(cache, target) yields only at a carrier whose `f` equals target and
\* whose `s` was written into the cache in that same step, and the yielded value is that
\* carrier's `s`; it never yields for an id other than target nor for an id that was
\* already in the cache.
C21_YieldsOnlyTheTarget ==
    [][YieldsTheTarget]_vars

\* a yield after the engine went past a carrier that declares an id again which the
\* cache already held
C21_Witness ==
    /\ HasYielded
    /\ \E i \in Events("examine"), j \in Events("examine"), k \in Events("yield") :
          /\ i < j /\ j < k
          /\ engine.log[i].node # engine.log[j].node
          /\ engine.log[j].node # engine.log[k].node
          /\ heap[engine.log[i].node].f = heap[engine.log[j].node].f
          /\ heap[engine.log[i].node].s # Undefined
          /\ heap[engine.log[j].node].s # Undefined

\* next(storage) without id, called in the current state of the engine.
ScanOn == next(heap, env, engine.st, engine.storage, Undefined)

\* C22: advance called without a target id never yields a value: a single call runs
\* until the stack is empty and returns done, and afterwards the cache contains, for
\* every id declared inline in the scanned payload and not cached before, its first
\* declaration in document order.
C22_AdvanceWithoutTargetScansAll ==
    ~engine.busy =>
        /\ ScanOn.done
        /\ ScanOn.value = Undefined
        /\ ScanOn.st.processableId = -1
        /\ ScanOn.st._stack = <<>>
        /\ DOMAIN ScanOn.storage = (DOMAIN engine.storage) \cup DeclaredIds(heap, Root)
        /\ \A N \in DOMAIN engine.storage : ScanOn.storage[N] = engine.storage[N]
        /\ \A N \in DeclaredIds(heap, Root) \ DOMAIN engine.storage :
              ScanOn.storage[N] = FirstDeclaration(heap, Root, N)

\* an engine that has yielded inside a `d`, with ids still to come that a call without
\* id is to cache
C22_Witness ==
    /\ HasYielded
    /\ engine.st.processableId >= 3
    /\ DeclaredIds(heap, Root) \ DOMAIN engine.storage # {}
    /\ DOMAIN ScanOn.storage = DeclaredIds(heap, Root)

\* next() has returned done exactly when the stack is empty.
DoneIsEmptyStack ==
    ~engine.busy => (engine.done <=> engine.st.processableId < 0)

\* On an empty stack a call returns done at once and leaves the stack and the cache.
StaysDone ==
    engine.st.processableId < 0 =>
        /\ engine'.st = engine.st
        /\ engine'.storage = engine.storage
        /\ engine.busy => (~engine'.busy /\ engine'.done /\ engine'.value = Undefined)

\* C23: advance returns {done: true} exactly when the stack is empty; once an engine
\* has returned done, every later advance call on it, for any target id, returns done
\* again immediately and changes neither the stack nor the cache.
C23_DoneIsFinal ==
    []DoneIsEmptyStack /\ [][StaysDone]_vars

\* a finished engine asked again, for an id its payload declares
C23_Witness ==
    /\ ~engine.busy
    /\ engine.done
    /\ engine.id \in DeclaredIds(heap, Root)
    /\ engine.id \in DOMAIN engine.storage
    /\ Events("yield") = {}

\* C24: on any finite payload every advance call terminates, either yielding the
\* target's structure or returning done; getFormat and scanFormats, which make one call
\* each, terminate with it.
C24_AdvanceTerminates ==
    engine.busy ~> (~engine.busy /\ (engine.done \/ engine.value # Undefined))

\* a call that has returned done after going through the whole of a record payload,
\* nested arrays included
C24_Witness ==
    /\ ~engine.busy
    /\ engine.done
    /\ engine.id = MaxId + 1
    /\ Cardinality({engine.log[i].node : i \in Events("pull")}) >= 2
    /\ heap[Root].kind = "obj"

\* The carriers in the order in which the engine examined them for the first time.
RECURSIVE ExaminedUpTo(_)
ExaminedUpTo(n) ==
    IF n = 0 THEN <<>>
    ELSE IF /\ engine.log[n].op = "examine"
            /\ \A i \in 1..(n - 1) :
                  ~(engine.log[i].op = "examine" /\ engine.log[i].node = engine.log[n].node)
    THEN Append(ExaminedUpTo(n - 1), engine.log[n].node)
    ELSE ExaminedUpTo(n - 1)

ExaminedOrder == ExaminedUpTo(Len(engine.log))

\* The entries on the stack after the first n events.
RECURSIVE DepthUpTo(_)
DepthUpTo(n) ==
    IF n = 0 THEN 0
    ELSE IF engine.log[n].op = "push" THEN DepthUpTo(n - 1) + 1
    ELSE IF engine.log[n].op = "pop" THEN DepthUpTo(n - 1) - 1
    ELSE DepthUpTo(n - 1)

\* C25: the order in which a traversal adds ids to an empty cache is the pre-order of
\* the payload: the carriers are examined, and their declarations recorded, in document
\* order, a carrier before anything inside its `d`, all of them once the traversal is
\* through; the cache holds for each id the
\* structure of the first carrier examined that declares it; and when an array gives
\* its next element, everything pushed for its earlier elements has been popped.
C25_CacheFilledInPreOrder ==
    /\ Len(ExaminedOrder) <= Len(DocumentOrder(heap, Root))
    /\ ExaminedOrder = SubSeq(DocumentOrder(heap, Root), 1, Len(ExaminedOrder))
    /\ (~engine.busy /\ engine.done) => ExaminedOrder = DocumentOrder(heap, Root)
    /\ DOMAIN engine.storage
          = {heap[n].f : n \in {ExaminedOrder[i] : i \in 1..Len(ExaminedOrder)}
                              \cap {m \in Carriers(heap, Root) : heap[m].s # Undefined}}
    /\ \A N \in DOMAIN engine.storage :
          \E i \in 1..Len(ExaminedOrder) :
              /\ Declares(heap, ExaminedOrder[i], N)
              /\ engine.storage[N] = heap[ExaminedOrder[i]].s
              /\ \A j \in 1..(i - 1) : ~Declares(heap, ExaminedOrder[j], N)
    /\ \A i \in Events("pull") :
          DepthUpTo(i - 1) = Len(PathTo(heap, Root, engine.log[i].node))

\* a full traversal of a record payload that declares two ids, the second one inside
\* the `d` of a carrier inside the `d` of the root
C25_Witness ==
    /\ ~engine.busy
    /\ engine.done
    /\ heap[Root].kind = "obj"
    /\ Len(ExaminedOrder) = Len(DocumentOrder(heap, Root))
    /\ Cardinality(DOMAIN engine.storage) = MaxId
    /\ \E i \in Events("descend"), j \in Events("descend") : i < j

\* C26: when getFormat fails with the lookup error, the traversal has run to
\* exhaustion: the engine's stack is empty, the cache contains every id declared inline
\* anywhere in the bound payload, and the same getFormat repeated fails again and
\* leaves the cache as it is.
C26_FailureMeansExhausted ==
    \A N \in LookupIds, copy \in BOOLEAN :
        LET r == Get(N, copy)
        IN  r.threw =>
                /\ r.st.processableId = -1
                /\ r.st._stack = <<>>
                /\ DeclaredIds(heap, Root) \subseteq DOMAIN r.c._cache
                /\ N \notin DOMAIN r.c._cache
                /\ GetAfter(r, N, copy).threw
                /\ GetAfter(r, N, copy).c._cache = r.c._cache

\* a failed lookup has left a controller on a record payload with every declared id
\* cached by its traversal, and the id is asked for again
C26_Witness ==
    /\ started /\ scanned = {} /\ Planted = {}
    /\ heap[Root].kind = "obj"
    /\ Cardinality(DeclaredIds(heap, Root)) = MaxId
    /\ DOMAIN controller._cache = DeclaredIds(heap, Root)
    /\ Get(MaxId + 1, FALSE).threw
    /\ Get(MaxId + 1, FALSE).c._cache = controller._cache

\* recoverData(data) and recoverData(data, controller) called in the current state.
Recover(data, given) == recoverData(heap, env, lists, controller, data, given)

\* The carriers eachFormatEntry reports of `data`.
Entries(data) == {eachFormatEntry(heap, data)[i] : i \in 1..Len(eachFormatEntry(heap, data))}

\* C27: recoverData removes `f` fields only after the structure of every carrier has
\* been resolved: when it returns, every carrier it visited has a structure and no
\* `f`; if some back-reference id cannot be resolved, the lookup error propagates out
\* of recoverData and at that point no carrier has lost its `f` field.
C27_IdsRemovedAfterAllResolved ==
    \A data \in {Root, Other(heap)}, given \in BOOLEAN :
        LET r == Recover(data, given)
            entries == Entries(data)
        IN  /\ r.threw =>
                  /\ r.value = Undefined
                  /\ \A n \in DOMAIN heap : r.h[n].f = heap[n].f
                  /\ \E n \in entries :
                        ~Truthy(heap[n].s) /\ heap[n].f \notin DOMAIN r.used._cache
            /\ ~r.threw =>
                  /\ \A n \in entries : Truthy(r.h[n].s) /\ r.h[n].f = Undefined
                  /\ \A n \in (DOMAIN heap) \ entries : r.h[n] = heap[n]

\* a recoverData has thrown on the bound payload: a back-reference carries the structure
\* it was resolved to and still its `f`, another one cannot be resolved, and recoverData
\* throws again
C27_Witness ==
    /\ Recover(Root, TRUE).threw
    /\ \E n \in Carriers(heap, Root), m \in Carriers(heap, Root) :
          /\ n # m
          /\ heap[n].s # Undefined
          /\ heap[n].s = heap[m].s
          /\ heap[n].f # Undefined
          /\ heap[n].f = heap[m].f
    /\ \E n \in Carriers(heap, Root) : heap[n].s = Undefined /\ heap[n].f # Undefined

\* getFormat(N) without copy returns the list the cache holds for N, a list that was
\* there before the call.
ReturnsOwnList ==
    \A N \in LookupIds :
        ~Get(N, FALSE).threw =>
            /\ Get(N, FALSE).value = Get(N, FALSE).c._cache[N]
            /\ Get(N, FALSE).value \in DOMAIN lists
            /\ Get(N, FALSE).lists = lists
            /\ (~Get(N, FALSE).hit /\ N \notin Planted) =>
                  Get(N, FALSE).value = heap[FirstCarrier(heap, Root, N)].s
            /\ GetAfter(Get(N, FALSE), N, FALSE).value = Get(N, FALSE).value

\* The list the caller got without copy is the one every getFormat of that id works on.
HeldIsOwnList ==
    (~held.copy /\ held.ref # Undefined) =>
        /\ held.id \in DOMAIN controller._cache
        /\ held.ref = controller._cache[held.id]
        /\ Get(held.id, FALSE).value = held.ref
        /\ Get(held.id, TRUE).lists[Get(held.id, TRUE).value] = lists[held.ref]

\* A change the caller makes to such a list is what the next getFormat of that id shows.
ChangeIsVisible ==
    (~held.copy /\ held.ref # Undefined /\ held'.changes > held.changes) =>
        LET after == getFormat(heap', env', lists', controller', held.id, FALSE)
        IN  /\ after.value = held.ref
            /\ after.lists[after.value] = ChangedList(lists[held.ref], CHOOSE change \in Changes :
                                               lists'[held.ref] = ChangedList(lists[held.ref], change))

\* C28: getFormat(N) without copy returns the cache's own list (when the call triggered
\* the traversal, the payload's inline `s` list itself): two such calls return the same
\* list, and a change a caller makes to that list is visible in every later
\* getFormat(N).
C28_UncopiedListIsShared ==
    /\ []ReturnsOwnList
    /\ []HeldIsOwnList
    /\ [][ChangeIsVisible]_vars

\* the caller has changed a list a traversing getFormat(N) gave it, which is the inline
\* list of the payload, and getFormat(N) shows the change
C28_Witness ==
    /\ ~held.copy /\ ~held.hit /\ held.changed
    /\ held.ref # Undefined
    /\ held.ref = heap[FirstCarrier(heap, Root, held.id)].s
    /\ \E i \in 1..Len(lists[held.ref]) : lists[held.ref][i] = FieldOfMutation
    /\ lists[Get(held.id, FALSE).value] = lists[held.ref]

\* A step that changes the payload heap is a recoverData.
OnlyRecoverDataMutates ==
    heap' # heap =>
        \E data \in {Root, Other(heap)}, given \in BOOLEAN : heap' = Recover(data, given).h

\* getFormat, setOriginal and scanFormats, called in the current state, leave a
\* controller bound to the same root.
StaysBound ==
    /\ controller._data = Root
    /\ \A N \in LookupIds, copy \in BOOLEAN : Get(N, copy).c._data = Root
    /\ \A N \in LookupIds : setOriginal(lists, controller, N, CallerList(heap)).c._data = Root
    /\ \A data \in {Root, Other(heap), Null, Prim} :
          scanFormats(heap, env, controller, data).c._data = Root

\* C29: getFormat, setOriginal and scanFormats never modify the payload: no node gains,
\* loses or changes `f`, `s` or `d`, and the controller's `data` property returns the
\* root it was constructed with after any sequence of calls; only recoverData mutates
\* a payload.
C29_PayloadIsReadOnly ==
    []StaysBound /\ [][OnlyRecoverDataMutates]_vars

\* lookups, a seeding and scans of the payload and of other data have been made, and
\* every carrier of the payload still has its id
C29_Witness ==
    /\ started
    /\ seeded # {}
    /\ {Root, Other(heap)} \subseteq scanned
    /\ controller._data = Root
    /\ \A n \in Carriers(heap, Root) : heap[n].f # Undefined
    /\ \E n \in Carriers(heap, Root) : heap[n].s = Undefined

\* The carriers an engine log shows examined, in the order of their first examination.
RECURSIVE ExaminedIn(_, _)
ExaminedIn(log, n) ==
    IF n = 0 THEN <<>>
    ELSE IF /\ log[n].op = "examine"
            /\ \A i \in 1..(n - 1) : ~(log[i].op = "examine" /\ log[i].node = log[n].node)
    THEN Append(ExaminedIn(log, n - 1), log[n].node)
    ELSE ExaminedIn(log, n - 1)

\* The nodes of a sequence that have `s` or `f` defined, in their order.
RECURSIVE WithEntry(_, _)
WithEntry(h, nodes) ==
    IF nodes = <<>> THEN <<>>
    ELSE IF h[Head(nodes)].s # Undefined \/ h[Head(nodes)].f # Undefined
    THEN <<Head(nodes)>> \o WithEntry(h, Tail(nodes))
    ELSE WithEntry(h, Tail(nodes))

\* A full traversal of the bound payload by a new engine on an empty cache.
FullTraversal == RunNext(heap, env, Called(Engine(Root), Undefined))

\* C30: eachFormatEntry calls the callback exactly once on each node that has `s` or `f`
\* defined and is reachable from the root through arrays and `d` fields, in the same
\* pre-order in which the traversal engine examines those nodes; the first node it
\* reports per id having both `f` and `s` is the one whose `s` a full engine traversal
\* puts in an empty cache.
C30_EachFormatEntryFollowsEngine ==
    LET entries == eachFormatEntry(heap, Root)
        full == FullTraversal
    IN  /\ \A i \in 1..Len(entries), j \in 1..Len(entries) : entries[i] = entries[j] => i = j
        /\ {entries[i] : i \in 1..Len(entries)}
              = {n \in Carriers(heap, Root) : heap[n].s # Undefined \/ heap[n].f # Undefined}
        /\ entries = WithEntry(heap, ExaminedIn(full.log, Len(full.log)))
        /\ full.done
        /\ DOMAIN full.storage = {heap[entries[i]].f : i \in {k \in 1..Len(entries) :
                                      heap[entries[k]].f # Undefined /\ heap[entries[k]].s # Undefined}}
        /\ \A N \in DOMAIN full.storage :
              \E i \in 1..Len(entries) :
                  /\ Declares(heap, entries[i], N)
                  /\ \A j \in 1..(i - 1) : ~Declares(heap, entries[j], N)
                  /\ full.storage[N] = heap[entries[i]].s

\* a record payload with a carrier that has neither `f` nor `s`, one with `s` alone, and
\* an id declared twice
C30_Witness ==
    /\ heap[Root].kind = "obj"
    /\ \E n \in Carriers(heap, Root) : heap[n].s = Undefined /\ heap[n].f = Undefined
    /\ \E n \in Carriers(heap, Root) : heap[n].s # Undefined /\ heap[n].f = Undefined
    /\ \E n \in Carriers(heap, Root), m \in Carriers(heap, Root) :
          n # m /\ heap[n].f # Undefined /\ Declares(heap, n, heap[n].f) /\ Declares(heap, m, heap[n].f)
    /\ Len(eachFormatEntry(heap, Root)) < Cardinality(Carriers(heap, Root))
    /\ started

\* A node pushed on the stack of the engine as it is now, and that node popped again.
WithPushed(data) == push(engine.st, WrapperNode(data))
PushedThenPopped(data) == pop(WithPushed(data))

\* C33: after push(n) the current node is n at depth index old top + 1, with the
\* entries below as they were; push(n) followed by pop() restores the previous current
\* node, depth index and set of stored entries; popping the last entry leaves the
\* current node undefined and the depth index at -1.
C33_PushThenPopRestores ==
    /\ \A data \in (DOMAIN heap) \cup {Undefined, Prim} :
          /\ WithPushed(data).processableId = engine.st.processableId + 1
          /\ currentNode(WithPushed(data)) = WithPushed(data)._stack[engine.st.processableId + 1]
          /\ WithPushed(data).nodes[currentNode(WithPushed(data))] = WrapperNode(data)
          /\ currentNode(WithPushed(data)) \notin {engine.st._stack[k] : k \in DOMAIN engine.st._stack}
          /\ DOMAIN WithPushed(data)._stack = (DOMAIN engine.st._stack) \cup {engine.st.processableId + 1}
          /\ \A k \in DOMAIN engine.st._stack : WithPushed(data)._stack[k] = engine.st._stack[k]
          /\ currentNode(PushedThenPopped(data)) = currentNode(engine.st)
          /\ PushedThenPopped(data).processableId = engine.st.processableId
          /\ PushedThenPopped(data)._stack = engine.st._stack
          /\ \A w \in 1..Len(engine.st.nodes) : PushedThenPopped(data).nodes[w] = engine.st.nodes[w]
    /\ engine.st.processableId = 0 =>
          /\ currentNode(pop(engine.st)) = Undefined
          /\ pop(engine.st).processableId = -1
          /\ pop(engine.st)._stack = <<>>

\* stacks of one entry, of several and of none, each after pushes and pops
C33_Witness ==
    /\ engine.st.processableId = 0
    /\ Len(engine.st.nodes) >= 4
    /\ engine.busy
    /\ engine.frames # <<>>

\* C34: IteratorArray.next returns the wrapped array's elements in index order, each
\* exactly once with done = false, and then reports done = true; once it has reported
\* done, every further next call keeps reporting done.
C34_DoneStaysDone ==
    /\ \A i \in 1..Len(reader.results) :
          i <= Len(reader.data) =>
              reader.results[i] = [value |-> reader.data[i], done |-> FALSE]
    /\ Len(reader.results) > Len(reader.data) =>
          reader.results[Len(reader.data) + 1] = [value |-> Undefined, done |-> TRUE]
    /\ \A i, j \in 1..Len(reader.results) :
          (i < j /\ reader.results[i].done) => reader.results[j].done

\* What sortItems gives for the strategy as it is now: its source's items, its handler
\* and the groups it holds.
Sorted == sortItems(strategy.source.items, strategy.handler, strategy._groups)

\* C31: with a handler, Group.sortItems returns an order in which every group that has
\* at least one item appears exactly once, groups are ordered by the position of their
\* first item, each group index is immediately followed by all of its items in source
\* order (each as position + groups.length), every item appears exactly once, and
\* groups without items are left out; without a handler it empties the groups list and
\* returns the identity order 0..n-1.
C31_SortItemsGroupsInOrder ==
    LET list == strategy.source.items
        n == Len(list)
        r == Sorted.result
        G == Len(Sorted.groups)
        Id(p) == Handle(strategy.handler, list[p + 1], p)
        Places(v) == {i \in 1..Len(r) : r[i] = v}
        IsGroup(i) == r[i] < G
        Leader(i) == CHOOSE k \in 1..i : IsGroup(k) /\ \A m \in (k + 1)..i : ~IsGroup(m)
    IN  IF strategy.handler = NoHandler
        THEN /\ Sorted.groups = <<>>
             /\ r = [i \in 1..n |-> i - 1]
        ELSE /\ \A i \in 1..Len(r) : r[i] \in 0..(G + n - 1)
             /\ \A p \in 0..(n - 1) : Cardinality(Places(p + G)) = 1
             /\ \A k \in 0..(G - 1) : Cardinality(Places(k)) <= 1
             /\ Len(r) > 0 => IsGroup(1)
             /\ \A i \in 1..Len(r) : IsGroup(i) => (i < Len(r) /\ ~IsGroup(i + 1))
             /\ \A i \in 1..Len(r) :
                   ~IsGroup(i) => Sorted.groups[r[Leader(i)] + 1] = Id(r[i] - G)
             /\ \A i, j \in 1..Len(r) :
                   (~IsGroup(i) /\ ~IsGroup(j) /\ Id(r[i] - G) = Id(r[j] - G)
                        /\ Id(r[i] - G) # NaN) => Leader(i) = Leader(j)
             /\ \A i, j \in 1..Len(r) :
                   (~IsGroup(i) /\ ~IsGroup(j) /\ i < j /\ Leader(i) = Leader(j)) => r[i] < r[j]
             /\ \A i, j \in 1..Len(r) :
                   (IsGroup(i) /\ IsGroup(j) /\ i < j) => r[i + 1] < r[j + 1]

\* sortItems has run on three items, the first and the last in one group and the second
\* in another, with a group left from before that has no item now
C31_Witness ==
    /\ strategy.handler = "contents"
    /\ strategy.source.items = <<1, NaN, 1>>
    /\ ~strategy._itemsOrder.null
    /\ Len(strategy._itemsOrder.array) = 5
    /\ Len(strategy._groups) = 3
    /\ strategy._itemsOrder.array[2] = 3
    /\ strategy._itemsOrder.array[3] = 5

\* The order a read works on: the one held, or the one computed now.
CurrentOrder == IF strategy._itemsOrder.null THEN Sorted.result ELSE strategy._itemsOrder.array

\* A read computes the order only when none is held, from the items the source has now.
ReadComputesWhenInvalid ==
    strategy'.out.op \in {"count", "items", "at"} =>
        IF strategy._itemsOrder.null
        THEN /\ strategy'._itemsOrder = Order(Sorted.result)
             /\ strategy'._groups = Sorted.groups
             /\ strategy'.created = 1
        ELSE /\ strategy'._itemsOrder = strategy._itemsOrder
             /\ strategy'._groups = strategy._groups
             /\ strategy'.created = strategy.created

\* splice, reset and invalidate drop the order; reset clears the groups as well.
WritesInvalidate ==
    /\ strategy'.out.op \in {"splice", "reset", "invalidate"} => strategy'._itemsOrder.null
    /\ strategy'.out.op = "reset" => strategy'._groups = <<>>

\* at(index) throws ReferenceError exactly for the indices outside the order
AtThrowsOutside ==
    \A index \in -1..(MaxItems + MaxGroups) :
        Readable =>
            /\ at(strategy, index).out.thrown = "ReferenceError"
                   <=> index \notin 0..(Len(CurrentOrder) - 1)
            /\ at(strategy, index).out.thrown \in {"", "ReferenceError"}

\* C32: the items order is computed at most once between invalidating operations:
\* after splice, reset or invalidate the next read of count, items or at recomputes it
\* from the source's current items (reset also clearing the groups), and at(index)
\* throws ReferenceError when index is outside the current order.
C32_OrderComputedOncePerInvalidation ==
    /\ [](strategy.created <= 1)
    /\ [](strategy._itemsOrder.null <=> strategy.created = 0)
    /\ []AtThrowsOutside
    /\ [][ReadComputesWhenInvalid /\ WritesInvalidate]_vars

\* at() has thrown on an order computed after a splice: a group of the former order is
\* still held and has no item now
C32_Witness ==
    /\ strategy.out.op = "at"
    /\ strategy.out.thrown = "ReferenceError"
    /\ strategy.created = 1
    /\ strategy.handler = "position"
    /\ strategy._groups = <<0, 1>>
    /\ strategy.source.items = <<NaN>>
    /\ strategy._itemsOrder = Order(<<0, 2>>)

====
